---- MODULE Spec2Model ----
(***************************************************************************)
(* Model of the reporting read layer of the Supply Chain API               *)
(* (backend/app/routes/*.py, backend/app/utils/db_helpers.py).             *)
(*                                                                         *)
(* Conventions                                                             *)
(*   - Optional[X] / a nullable column is a sequence of length 0 or 1:     *)
(*     None == <<>>, Some(x) == <<x>>.                                     *)
(*   - Python str values that the code splits, slices or compares          *)
(*     character-wise (year-month strings, HS codes) are sequences of      *)
(*     one-character strings; values only compared for equality           *)
(*     (country codes, industries) are TLA+ strings.                       *)
(*   - DECIMAL columns are integers (hundredths).                          *)
(*   - A handler is an operator from the database state and the request    *)
(*     parameters to the SET of responses the request can end in: an       *)
(*     ORDER BY leaves the order of tied rows to the engine.               *)
(*   - routes/country_trade_stats.py as checked in has an inner `try:`     *)
(*     whose body is not indented (lines 70, 164, 277, 364).  The model    *)
(*     follows the block structure the except clauses and return           *)
(*     statements give: the statements from the inner `try:` to its        *)
(*     except clause form the inner try body.                              *)
(*   - Handlers share no state across requests (one session per request,   *)
(*     read-only queries), so a behaviour is one request against one       *)
(*     state of the store.                                                 *)
(***************************************************************************)
EXTENDS Integers, Sequences, FiniteSets, TLC

VARIABLES db, req, resp

vars == <<db, req, resp>>

(***************************************************************************)
(* Bounds of the model.                                                    *)
(***************************************************************************)
MaxRows == 3
MaxFilters == 2

(***************************************************************************)
(* Generic helpers.                                                        *)
(***************************************************************************)
None == <<>>
Some(x) == <<x>>
Range(s) == {s[i] : i \in 1..Len(s)}
Min(a, b) == IF a <= b THEN a ELSE b
BoundedSubsets(U, n) == {S \in SUBSET U : Cardinality(S) <= n}

\* Sum of f[x] over x in S, f a function on S.
RECURSIVE SumOver(_, _)
SumOver(S, f) ==
  IF S = {} THEN 0
  ELSE LET x == CHOOSE y \in S : TRUE IN f[x] + SumOver(S \ {x}, f)

\* All orders of the rows of S in which no row comes after a row it precedes
\* (rows that tie under the ORDER BY come in either order).
SortedSeqs(S, Precedes(_, _)) ==
  LET build[T \in SUBSET S] ==
        IF T = {} THEN {<<>>}
        ELSE UNION {{<<x>> \o s : s \in build[T \ {x}]} :
                      x \in {y \in T : \A z \in T : ~Precedes(z, y)}}
  IN build[S]

\* SQL LIMIT n on an ordered result.
Limit(s, n) == SubSeq(s, 1, Min(n, Len(s)))

(***************************************************************************)
(* Python truthiness of the optional query parameters (`if param:`).       *)
(***************************************************************************)
\* Variant: only an omitted parameter is falsy, an empty list is not.
TruthySeq_NotNone(o) == o # None
TruthySeq(o) == o # None /\ Len(o[1]) > 0
TruthyInt(o) == o # None /\ o[1] # 0
TruthyStr(o) == o # None /\ o[1] # ""

(***************************************************************************)
(* Strings as character sequences: str.split, int(), f"{n:02d}".           *)
(***************************************************************************)
Digits == <<"0", "1", "2", "3", "4", "5", "6", "7", "8", "9">>
DigitVal(c) == (CHOOSE i \in 1..10 : Digits[i] = c) - 1
IsDigit(c) == c \in Range(Digits)

RECURSIVE Split(_, _)
Split(s, sep) ==
  IF \A i \in 1..Len(s) : s[i] # sep THEN <<s>>
  ELSE LET k == CHOOSE i \in 1..Len(s) :
                  s[i] = sep /\ \A j \in 1..(i - 1) : s[j] # sep
       IN <<SubSeq(s, 1, k - 1)>> \o Split(SubSeq(s, k + 1, Len(s)), sep)

\* int(s) succeeds on a non-empty run of decimal digits.
IntParses(s) == Len(s) > 0 /\ \A i \in 1..Len(s) : IsDigit(s[i])

RECURSIVE IntOf(_)
IntOf(s) ==
  IF Len(s) = 0 THEN 0
  ELSE 10 * IntOf(SubSeq(s, 1, Len(s) - 1)) + DigitVal(s[Len(s)])

RECURSIVE StrOf(_)
StrOf(n) == IF n < 10 THEN <<Digits[n + 1]>>
            ELSE StrOf(n \div 10) \o <<Digits[(n % 10) + 1]>>

Pad2(n) == IF n < 10 THEN <<"0">> \o StrOf(n) ELSE StrOf(n)

\* year_val, month_val = s.split('-'); int(year_val); int(month_val)
YearMonthParses(s) ==
  LET parts == Split(s, "-") IN
  Len(parts) = 2 /\ IntParses(parts[1]) /\ IntParses(parts[2])

YearOf(s) == IntOf(Split(s, "-")[1])
MonthOf(s) == IntOf(Split(s, "-")[2])

(***************************************************************************)
(* The store: which relations exist, schema drift, and table contents.     *)
(***************************************************************************)
Tables == {"country_origin_trade_stats", "country_monthly_trade_stats",
           "monthly_company_flows", "hs_code_categories", "port_locations",
           "transactions"}

\* Exceptions, as the tokens their str() contains.
\* msg: str(error); orig: str(error.orig), the driver-level error.
UndefinedTableError ==
  [type |-> "ProgrammingError",
   msg |-> <<"UndefinedTable", "relation", "does not exist">>,
   orig |-> <<"relation", "does not exist">>]
UndefinedColumnError ==
  [type |-> "ProgrammingError",
   msg |-> <<"UndefinedColumn", "column", "does not exist">>,
   orig |-> <<"column", "does not exist">>]
NegativeLimitError ==
  [type |-> "DataError",
   msg |-> <<"InvalidRowCountInLimitClause", "LIMIT must not be negative">>,
   orig |-> <<"LIMIT must not be negative">>]
ConnectionError ==
  [type |-> "OperationalError",
   msg |-> <<"OperationalError", "server closed the connection unexpectedly">>,
   orig |-> <<"server closed the connection unexpectedly">>]
ValueError ==
  [type |-> "ValueError", msg |-> <<"not enough values to unpack">>,
   orig |-> <<>>]

\* str.lower() on the tokens of a message.
Lower(tok) ==
  CASE tok = "UndefinedTable" -> "undefinedtable"
    [] tok = "UndefinedColumn" -> "undefinedcolumn"
    [] tok = "InvalidRowCountInLimitClause" -> "invalidrowcountinlimitclause"
    [] tok = "LIMIT must not be negative" -> "limit must not be negative"
    [] tok = "OperationalError" -> "operationalerror"
    [] tok = "UNDEFINEDTABLE" -> "undefinedtable"
    [] tok = "Relation" -> "relation"
    [] tok = "Does Not Exist" -> "does not exist"
    [] OTHER -> tok
LowerMsg(m) == [i \in 1..Len(m) |-> Lower(m[i])]
Contains(m, tok) == tok \in Range(m)

\* Variant: "relation" alone is a marker.
is_missing_table_error_RelationAlone(e) ==
  LET message == LowerMsg(e.msg) IN
  \/ Contains(message, "undefinedtable")
  \/ Contains(message, "relation")
  \/ (e.type = "ProgrammingError" /\ Contains(LowerMsg(e.orig), "undefinedtable"))

\* db_helpers.is_missing_table_error
is_missing_table_error(e) ==
  LET message == LowerMsg(e.msg) IN
  \/ Contains(message, "undefinedtable")
  \/ (Contains(message, "relation") /\ Contains(message, "does not exist"))
  \/ (e.type = "ProgrammingError" /\ Contains(LowerMsg(e.orig), "undefinedtable"))

\* The inline test the routes use before returning their default.
RouteSaysMissing(e) ==
  \/ Contains(e.msg, "does not exist")
  \/ Contains(e.msg, "UndefinedTable")
  \/ Contains(LowerMsg(e.msg), "relation")

\* The error db.execute raises for a query on table t, or None.
\* negLimit: the statement carries a negative LIMIT.
ExecError(d, t, negLimit) ==
  IF ~d.up THEN Some(ConnectionError)
  ELSE IF t \notin d.tables THEN Some(UndefinedTableError)
  ELSE IF t \in d.drift THEN Some(UndefinedColumnError)
  ELSE IF negLimit THEN Some(NegativeLimitError)
  ELSE None

\* SELECT EXISTS (SELECT FROM information_schema.tables ...)
CatalogError(d) == IF ~d.up THEN Some(ConnectionError) ELSE None

(***************************************************************************)
(* Responses.                                                              *)
(***************************************************************************)
OkList(rows) == [status |-> 200, kind |-> "list", body |-> rows]
OkRecord(r) == [status |-> 200, kind |-> "record", body |-> <<r>>]
\* main.http_exception_handler on HTTPException(status_code=500, detail=...)
HttpError(code, e) ==
  [status |-> code, kind |-> "error", body |-> <<[detail |-> e.msg]>>]
\* main.general_exception_handler
InternalError(e) ==
  [status |-> 500, kind |-> "error",
   body |-> <<[detail |-> <<"internal server error">>, error |-> e.msg]>>]
ResponseValidationError ==
  [type |-> "ResponseValidationError",
   msg |-> <<"Input should be a valid list">>, orig |-> <<>>]

\* FastAPI serialises the handler's return value against response_model:
\* a mapping returned from a List[...] endpoint fails validation.
AsListResponse(r) ==
  IF r.status = 200 /\ r.kind # "list" THEN InternalError(ResponseValidationError)
  ELSE r

NoReq == [endpoint |-> "none"]
NoResp == [status |-> 0, kind |-> "none", body |-> <<>>]

(***************************************************************************)
(* Values the requests and the tables draw from.                           *)
(***************************************************************************)
HsA == <<"8", "5", "4", "2", "3", "1">>
HsB == <<"8", "5", "4", "1", "1", "0">>
HsC == <<"9", "9", "0", "1", "0", "0">>
Prefix85 == <<"8", "5">>
Prefix99 == <<"9", "9">>

YM2212 == <<"2", "0", "2", "2", "-", "1", "2">>
YM2306 == <<"2", "0", "2", "3", "-", "0", "6">>
YM2307 == <<"2", "0", "2", "3", "-", "0", "7">>
YMNoSep == <<"2", "0", "2", "3", "0", "6">>
YMEmpty == <<>>
YearMonthInputs == {YM2212, YM2306, YM2307, YMNoSep, YMEmpty}

CountryLists == {<<>>, <<"CN">>, <<"CN", "JP">>}
HsCodeLists == {<<>>, <<HsA>>, <<HsA, HsC>>}
HsPrefixLists == {<<>>, <<Prefix85>>, <<Prefix99>>}
IndustryInputs == {"", "SemiConductor"}
LimitInputs == {0, 1, -1}

Opt(S) == {None} \cup {Some(x) : x \in S}

\* Number of parameters of request record p that differ from record dflt.
Supplied(p, dflt) == Cardinality({k \in DOMAIN p : p[k] # dflt[k]})

(***************************************************************************)
(* The month-range predicate shared by shipments.py and                    *)
(* country_trade_stats.py.                                                 *)
(***************************************************************************)
\* Variant: year and month are each compared on their own.
StartPredicate_Columnwise(y1, m1, r) == r.year >= y1 /\ r.month >= m1
\* (year > :start_year OR (year = :start_year AND month >= :start_month))
StartPredicate(y1, m1, r) == r.year > y1 \/ (r.year = y1 /\ r.month >= m1)
\* (year < :end_year OR (year = :end_year AND month <= :end_month))
EndPredicate(y2, m2, r) == r.year < y2 \/ (r.year = y2 /\ r.month <= m2)

\* if start_year_month: ... / if end_year_month: ...   (both parse)
YearMonthRange(p, r) ==
  /\ TruthySeq(p.start_year_month) =>
       StartPredicate(YearOf(p.start_year_month[1]),
                      MonthOf(p.start_year_month[1]), r)
  /\ TruthySeq(p.end_year_month) =>
       EndPredicate(YearOf(p.end_year_month[1]),
                    MonthOf(p.end_year_month[1]), r)

\* A supplied year-month string makes split/int raise ValueError.
YearMonthRaises(p) ==
  \/ TruthySeq(p.start_year_month) /\ ~YearMonthParses(p.start_year_month[1])
  \/ TruthySeq(p.end_year_month) /\ ~YearMonthParses(p.end_year_month[1])

\* ORDER BY year DESC, month DESC, sum_of_usd DESC (NULLs first under DESC)
UsdAbove(a, b) ==
  \/ a = None /\ b # None
  \/ a # None /\ b # None /\ a[1] > b[1]
PeriodValueDesc(a, b) ==
  \/ a.year > b.year
  \/ a.year = b.year /\ a.month > b.month
  \/ a.year = b.year /\ a.month = b.month /\ UsdAbove(a.sum_of_usd, b.sum_of_usd)

(***************************************************************************)
(* routes/shipments.py                                                     *)
(***************************************************************************)
DefaultShipmentsLimit == 10000

CotsRow(hs, y, m, o, dst, ind, w, usd) ==
  [hs_code |-> hs, year |-> y, month |-> m, origin_country_code |-> o,
   destination_country_code |-> dst, industry |-> ind, weight |-> w,
   quantity |-> Some(1), sum_of_usd |-> usd, weight_avg_price |-> Some(1),
   quantity_avg_price |-> None, trade_count |-> Some(1),
   amount_share_pct |-> Some(0)]

CotsList ==
  <<CotsRow(HsA, 2022, 12, "CN", "US", Some("SemiConductor"), Some(2), Some(5)),
   CotsRow(HsA, 2023, 6, "CN", "US", Some("SemiConductor"), None, Some(3)),
   CotsRow(HsB, 2023, 6, "US", "JP", Some("SemiConductor"), Some(0), Some(3)),
   CotsRow(HsC, 2023, 7, "JP", "CN", None, Some(1), Some(0)),
   CotsRow(HsB, 2023, 5, "JP", "US", Some("Solar"), Some(1), None)>>
CotsUniverse == Range(CotsList)

ShipmentParams ==
  [start_year_month : Opt(YearMonthInputs),
   end_year_month : Opt(YearMonthInputs),
   country : Opt(CountryLists),
   hs_code_prefix : Opt(HsPrefixLists),
   hs_code : Opt(HsCodeLists),
   industry : Opt(IndustryInputs),
   limit : {DefaultShipmentsLimit} \cup LimitInputs]

ShipmentDefaults ==
  [start_year_month |-> None, end_year_month |-> None, country |-> None,
   hs_code_prefix |-> None, hs_code |-> None, industry |-> None,
   limit |-> DefaultShipmentsLimit]

\* Variant: the full-code and the prefix filter are both applied.
ShipmentsHsFilter_Both(p, r) ==
  /\ TruthySeq(p.hs_code) => r.hs_code \in Range(p.hs_code[1])
  /\ TruthySeq(p.hs_code_prefix) =>
       SubSeq(r.hs_code, 1, 2) \in Range(p.hs_code_prefix[1])

\* HS Code filter: full code first, prefix only when no full code is given.
ShipmentsHsFilter(p, r) ==
  IF TruthySeq(p.hs_code) THEN r.hs_code \in Range(p.hs_code[1])
  ELSE IF TruthySeq(p.hs_code_prefix)
       THEN SubSeq(r.hs_code, 1, 2) \in Range(p.hs_code_prefix[1])
       ELSE TRUE

ShipmentsCountryFilter(p, r) ==
  TruthySeq(p.country) =>
    \/ r.origin_country_code \in Range(p.country[1])
    \/ r.destination_country_code \in Range(p.country[1])

ShipmentsIndustryFilter(p, r) ==
  TruthyStr(p.industry) => r.industry = Some(p.industry[1])

ShipmentsWhere(p, r) ==
  /\ YearMonthRange(p, r)
  /\ ShipmentsCountryFilter(p, r)
  /\ ShipmentsHsFilter(p, r)
  /\ ShipmentsIndustryFilter(p, r)

\* float(x) if x else None
FloatOrNone(x) == IF x # None /\ x[1] # 0 THEN x ELSE None
\* int(x) if x else 0
IntOrZero(x) == IF x # None /\ x[1] # 0 THEN x[1] ELSE 0

ShipmentDict(r) ==
  [year |-> r.year, month |-> r.month, hs_code |-> r.hs_code,
   industry |-> r.industry,
   origin_country_code |-> r.origin_country_code,
   destination_country_code |-> r.destination_country_code,
   weight |-> FloatOrNone(r.weight),
   quantity |-> FloatOrNone(r.quantity),
   total_value_usd |-> FloatOrNone(r.sum_of_usd),
   weight_avg_price |-> FloatOrNone(r.weight_avg_price),
   quantity_avg_price |-> FloatOrNone(r.quantity_avg_price),
   trade_count |-> IntOrZero(r.trade_count),
   amount_share_pct |-> FloatOrNone(r.amount_share_pct),
   country_of_origin |-> r.origin_country_code,
   destination_country |-> r.destination_country_code,
   date |-> StrOf(r.year) \o <<"-">> \o Pad2(r.month) \o <<"-", "0", "1">>]

\* The rows the statement returns, in each order the engine may produce.
ShipmentsRows(d, p) ==
  LET hit == {r \in d.cots : ShipmentsWhere(p, r)} IN
  {IF p.limit # 0 THEN Limit(s, p.limit) ELSE s :
     s \in SortedSeqs(hit, PeriodValueDesc)}

ShipmentsExecError(d, p) ==
  ExecError(d, "country_origin_trade_stats", p.limit < 0)

get_shipments(d, p) ==
  LET table_exists ==
        IF CatalogError(d) # None THEN FALSE
        ELSE "country_origin_trade_stats" \in d.tables
  IN
  IF ~table_exists THEN {OkList(<<>>)}
  ELSE IF YearMonthRaises(p) THEN {OkList(<<>>)}
  ELSE IF ShipmentsExecError(d, p) # None
       THEN IF RouteSaysMissing(ShipmentsExecError(d, p)[1])
            THEN {OkList(<<>>)}
            ELSE {OkList(<<>>)}
  ELSE {OkList([i \in 1..Len(s) |-> ShipmentDict(s[i])]) :
          s \in ShipmentsRows(d, p)}

\* The requests that supply at most MaxFilters parameters.
ShipmentRequests ==
  {p \in ShipmentParams : Supplied(p, ShipmentDefaults) <= MaxFilters}

GetShipments ==
  /\ req = NoReq
  /\ \E p \in ShipmentRequests :
       /\ \E r \in get_shipments(db, p) :
            /\ req' = [endpoint |-> "get_shipments", params |-> p]
            /\ resp' = AsListResponse(r)
  /\ UNCHANGED db

(***************************************************************************)
(* routes/country_trade_stats.py                                           *)
(***************************************************************************)
DefaultStatsLimit == 10000
DefaultTopLimit == 10

CmtsRow(hs, y, m, c, ind, w, usd, share) ==
  [hs_code |-> hs, year |-> y, month |-> m, country_code |-> c,
   industry |-> ind, weight |-> w, quantity |-> Some(1), sum_of_usd |-> usd,
   weight_avg_price |-> Some(1), quantity_avg_price |-> None,
   trade_count |-> Some(2), amount_share_pct |-> share]

CmtsList ==
  <<CmtsRow(HsA, 2022, 12, "CN", Some("SemiConductor"), Some(2), Some(5), Some(4)),
   CmtsRow(HsA, 2023, 6, "CN", Some("SemiConductor"), None, Some(3), Some(2)),
   CmtsRow(HsB, 2023, 6, "US", Some("SemiConductor"), Some(0), Some(3), None),
   CmtsRow(HsC, 2023, 7, "JP", None, Some(1), Some(0), Some(0)),
   CmtsRow(HsB, 2023, 5, "JP", Some("Solar"), Some(1), None, Some(1))>>
CmtsUniverse == Range(CmtsList)

YearInputs == {0, 2023}
MonthInputs == {0, 6}
HsCodeInputs == {<<>>, HsA}
CountryInputs == {"", "CN"}

\* dict(row._mapping)
RowDict(r) == r

\* SUM(col) over the rows of S: NULLs are skipped, NULL when none is left.
SqlSum(S, col) ==
  LET vals == {r \in S : r[col] # None} IN
  IF vals = {} THEN None ELSE Some(SumOver(vals, [r \in vals |-> r[col][1]]))
\* AVG(col): the mean of the non-NULL values (to whole units).
SqlAvg(S, col) ==
  LET vals == {r \in S : r[col] # None} IN
  IF vals = {} THEN None
  ELSE Some(SumOver(vals, [r \in vals |-> r[col][1]]) \div Cardinality(vals))
\* COALESCE(x, 0)
Coalesce0(x) == IF x = None THEN 0 ELSE x[1]

StatsParams ==
  [hs_code : Opt(HsCodeLists), year : Opt(YearInputs), month : Opt(MonthInputs),
   country : Opt(CountryLists), industry : Opt(IndustryInputs),
   start_year_month : Opt(YearMonthInputs),
   end_year_month : Opt(YearMonthInputs),
   limit : {DefaultStatsLimit} \cup LimitInputs]

StatsDefaults ==
  [hs_code |-> None, year |-> None, month |-> None, country |-> None,
   industry |-> None, start_year_month |-> None, end_year_month |-> None,
   limit |-> DefaultStatsLimit]

\* The WHERE clause get_country_trade_stats and the summary build.
StatsWhere(p, r) ==
  /\ TruthySeq(p.hs_code) => r.hs_code \in Range(p.hs_code[1])
  /\ TruthyInt(p.year) => r.year = p.year[1]
  /\ TruthyInt(p.month) => r.month = p.month[1]
  /\ TruthySeq(p.country) => r.country_code \in Range(p.country[1])
  /\ TruthyStr(p.industry) => r.industry = Some(p.industry[1])
  /\ YearMonthRange(p, r)

StatsRows(d, p) ==
  LET hit == {r \in d.cmts : StatsWhere(p, r)} IN
  {IF p.limit # 0 THEN Limit(s, p.limit) ELSE s :
     s \in SortedSeqs(hit, PeriodValueDesc)}

StatsExecError(d, p) ==
  ExecError(d, "country_monthly_trade_stats", p.limit < 0)

get_country_trade_stats(d, p) ==
  IF YearMonthRaises(p) THEN {OkList(<<>>)}
  ELSE IF StatsExecError(d, p) # None
       THEN IF RouteSaysMissing(StatsExecError(d, p)[1])
            THEN {OkList(<<>>)}
            ELSE {OkList(<<>>)}
  ELSE {OkList([i \in 1..Len(s) |-> RowDict(s[i])]) : s \in StatsRows(d, p)}

\* The requests that supply at most MaxFilters parameters.
StatsRequests ==
  {p \in StatsParams : Supplied(p, StatsDefaults) <= MaxFilters}

GetCountryTradeStats ==
  /\ req = NoReq
  /\ \E p \in StatsRequests :
       /\ \E r \in get_country_trade_stats(db, p) :
            /\ req' = [endpoint |-> "get_country_trade_stats", params |-> p]
            /\ resp' = AsListResponse(r)
  /\ UNCHANGED db

\* ---- /summary
SummaryParams ==
  [hs_code : Opt(HsCodeLists), year : Opt(YearInputs), month : Opt(MonthInputs),
   country : Opt(CountryLists), industry : Opt(IndustryInputs),
   start_year_month : Opt(YearMonthInputs),
   end_year_month : Opt(YearMonthInputs)]

SummaryDefaults ==
  [hs_code |-> None, year |-> None, month |-> None, country |-> None,
   industry |-> None, start_year_month |-> None, end_year_month |-> None]

\* The record the handler returns when no row is fetched or a failure is
\* recovered.
DefaultSummary ==
  [total_countries |-> Some(0), total_trade_value |-> Some(0),
   total_weight |-> None, total_quantity |-> None,
   total_trade_count |-> Some(0), avg_share_pct |-> Some(0)]

\* The single row of the aggregate SELECT.
SummaryRow(d, p) ==
  LET hit == {r \in d.cmts : StatsWhere(p, r)} IN
  [total_countries |-> Some(Cardinality({r.country_code : r \in hit})),
   total_trade_value |-> Some(Coalesce0(SqlSum(hit, "sum_of_usd"))),
   total_weight |-> Some(Coalesce0(SqlSum(hit, "weight"))),
   total_quantity |-> Some(Coalesce0(SqlSum(hit, "quantity"))),
   total_trade_count |-> Some(Coalesce0(SqlSum(hit, "trade_count"))),
   avg_share_pct |-> Some(Coalesce0(SqlAvg(hit, "amount_share_pct")))]

SummaryExecError(d) == ExecError(d, "country_monthly_trade_stats", FALSE)

get_country_trade_stats_summary(d, p) ==
  IF YearMonthRaises(p) THEN OkRecord(DefaultSummary)
  ELSE IF SummaryExecError(d) # None
       THEN IF RouteSaysMissing(SummaryExecError(d)[1])
            THEN OkRecord(DefaultSummary)
            ELSE OkRecord(DefaultSummary)
  ELSE OkRecord(RowDict(SummaryRow(d, p)))

\* The requests that supply at most MaxFilters parameters.
SummaryRequests ==
  {p \in SummaryParams : Supplied(p, SummaryDefaults) <= MaxFilters}

GetCountryTradeStatsSummary ==
  /\ req = NoReq
  /\ \E p \in SummaryRequests :
       /\ req' = [endpoint |-> "get_country_trade_stats_summary", params |-> p]
       /\ resp' = get_country_trade_stats_summary(db, p)
  /\ UNCHANGED db

\* ---- /trends
TrendParams ==
  [hs_code : Opt(HsCodeInputs), country : Opt(CountryInputs),
   industry : Opt(IndustryInputs),
   start_year_month : Opt(YearMonthInputs),
   end_year_month : Opt(YearMonthInputs)]

TrendDefaults ==
  [hs_code |-> None, country |-> None, industry |-> None,
   start_year_month |-> None, end_year_month |-> None]

TrendWhere(p, r) ==
  /\ TruthySeq(p.hs_code) => r.hs_code = p.hs_code[1]
  /\ TruthyStr(p.country) => r.country_code = p.country[1]
  /\ TruthyStr(p.industry) => r.industry = Some(p.industry[1])
  /\ YearMonthRange(p, r)

\* TO_CHAR(TO_DATE(year || '-' || LPAD(month::text, 2, '0') || '-01'), 'YYYY-MM')
YearMonthLabel(y, m) == StrOf(y) \o <<"-">> \o Pad2(m)

\* Variant: newest period first.
PeriodAsc_Descending(a, b) ==
  a.year > b.year \/ (a.year = b.year /\ a.month > b.month)
\* ORDER BY year, month
PeriodAsc(a, b) == a.year < b.year \/ (a.year = b.year /\ a.month < b.month)

\* GROUP BY year, month: one row per period of the filtered rows.
TrendGroups(d, p) ==
  LET hit == {r \in d.cmts : TrendWhere(p, r)} IN
  {LET g == {r \in hit : r.year = k[1] /\ r.month = k[2]} IN
   [year |-> k[1], month |-> k[2],
    year_month |-> YearMonthLabel(k[1], k[2]),
    sum_of_usd |-> Coalesce0(SqlSum(g, "sum_of_usd")),
    weight |-> Coalesce0(SqlSum(g, "weight")),
    quantity |-> Coalesce0(SqlSum(g, "quantity")),
    trade_count |-> Coalesce0(SqlSum(g, "trade_count"))] :
     k \in {<<r.year, r.month>> : r \in hit}}

\* The selected columns of a trend row.
TrendDict(g) ==
  [year_month |-> g.year_month, sum_of_usd |-> g.sum_of_usd,
   weight |-> g.weight, quantity |-> g.quantity, trade_count |-> g.trade_count]

TrendExecError(d) == ExecError(d, "country_monthly_trade_stats", FALSE)

get_country_trade_trends(d, p) ==
  IF YearMonthRaises(p) THEN {OkRecord(DefaultSummary)}
  ELSE IF TrendExecError(d) # None
       THEN IF RouteSaysMissing(TrendExecError(d)[1])
            THEN {OkList(<<>>)}
            ELSE {OkList(<<>>)}
  ELSE {OkList([i \in 1..Len(s) |-> TrendDict(s[i])]) :
          s \in SortedSeqs(TrendGroups(d, p), PeriodAsc)}

\* The requests that supply at most MaxFilters parameters.
TrendRequests ==
  {p \in TrendParams : Supplied(p, TrendDefaults) <= MaxFilters}

GetCountryTradeTrends ==
  /\ req = NoReq
  /\ \E p \in TrendRequests :
       /\ \E r \in get_country_trade_trends(db, p) :
            /\ req' = [endpoint |-> "get_country_trade_trends", params |-> p]
            /\ resp' = AsListResponse(r)
  /\ UNCHANGED db

\* ---- /top-countries
TopLimitInputs == {0, 1, 2, -1}

TopParams ==
  [hs_code : Opt(HsCodeInputs), year : Opt(YearInputs), month : Opt(MonthInputs),
   industry : Opt(IndustryInputs), limit : {DefaultTopLimit} \cup TopLimitInputs]

TopDefaults ==
  [hs_code |-> None, year |-> None, month |-> None, industry |-> None,
   limit |-> DefaultTopLimit]

TopWhere(p, r) ==
  /\ TruthySeq(p.hs_code) => r.hs_code = p.hs_code[1]
  /\ TruthyInt(p.year) => r.year = p.year[1]
  /\ TruthyInt(p.month) => r.month = p.month[1]
  /\ TruthyStr(p.industry) => r.industry = Some(p.industry[1])

\* GROUP BY country_code: one row per country of the filtered rows.
TopGroups(d, p) ==
  LET hit == {r \in d.cmts : TopWhere(p, r)} IN
  {LET g == {r \in hit : r.country_code = c} IN
   [country_code |-> c,
    sum_of_usd |-> Coalesce0(SqlSum(g, "sum_of_usd")),
    weight |-> Coalesce0(SqlSum(g, "weight")),
    quantity |-> Coalesce0(SqlSum(g, "quantity")),
    trade_count |-> Coalesce0(SqlSum(g, "trade_count")),
    amount_share_pct |-> Coalesce0(SqlAvg(g, "amount_share_pct"))] :
     c \in {r.country_code : r \in hit}}

\* Variant: smallest summed value first.
SumUsdDesc_Ascending(a, b) == a.sum_of_usd < b.sum_of_usd
\* ORDER BY sum_of_usd DESC (the output column, the coalesced sum)
SumUsdDesc(a, b) == a.sum_of_usd > b.sum_of_usd

TopExecError(d, p) == ExecError(d, "country_monthly_trade_stats", p.limit < 0)

get_top_countries(d, p) ==
  IF TopExecError(d, p) # None
  THEN IF RouteSaysMissing(TopExecError(d, p)[1])
       THEN {OkList(<<>>)}
       ELSE {OkList(<<>>)}
  ELSE {OkList([i \in 1..Len(s) |-> RowDict(s[i])]) :
          s \in {Limit(t, p.limit) : t \in SortedSeqs(TopGroups(d, p), SumUsdDesc)}}

\* The requests that supply at most MaxFilters parameters.
TopRequests ==
  {p \in TopParams : Supplied(p, TopDefaults) <= MaxFilters}

GetTopCountries ==
  /\ req = NoReq
  /\ \E p \in TopRequests :
       /\ \E r \in get_top_countries(db, p) :
            /\ req' = [endpoint |-> "get_top_countries", params |-> p]
            /\ resp' = AsListResponse(r)
  /\ UNCHANGED db

(***************************************************************************)
(* routes/monthly_company_flows.py                                         *)
(***************************************************************************)
\* Text comparison of year_month (VARCHAR) with the parameter, code point
\* order: '-' sorts before the digits.
CharRank(c) == IF IsDigit(c) THEN DigitVal(c) + 1 ELSE 0

RECURSIVE StrLeq(_, _)
StrLeq(a, b) ==
  IF Len(a) = 0 THEN TRUE
  ELSE IF Len(b) = 0 THEN FALSE
  ELSE IF CharRank(Head(a)) # CharRank(Head(b))
       THEN CharRank(Head(a)) < CharRank(Head(b))
  ELSE StrLeq(Tail(a), Tail(b))

\* TRIM(s): strip the spaces at both ends.
RECURSIVE Trim(_)
Trim(s) ==
  IF Len(s) = 0 THEN s
  ELSE IF Head(s) = " " THEN Trim(Tail(s))
  ELSE IF s[Len(s)] = " " THEN Trim(SubSeq(s, 1, Len(s) - 1))
  ELSE s

\* LEFT(s, 2)
Left2(s) == SubSeq(s, 1, Min(2, Len(s)))

\* unnest(string_to_array(hs_codes, ',')), each value as LEFT(TRIM(v), 2).
\* A NULL or empty hs_codes unnests to no value.
Chapters(hs_codes) ==
  IF hs_codes = None \/ Len(hs_codes[1]) = 0 THEN {}
  ELSE {Left2(Trim(v)) : v \in Range(Split(hs_codes[1], ","))}

Codes8542And9901 == <<"8", "5", "4", "2", ",", " ", "9", "9", "0", "1">>
Codes8541And8542 == <<"8", "5", "4", "1", ",", "8", "5", "4", "2">>
Codes9901 == <<"9", "9", "0", "1">>

McfRow(ym, ex, im, o, dst, codes, usd, first) ==
  [year_month |-> ym, exporter_name |-> ex, importer_name |-> im,
   origin_country |-> o, destination_country |-> dst, hs_codes |-> codes,
   transport_mode |-> None, trade_term |-> None, transaction_count |-> 1,
   total_value_usd |-> usd, total_weight_kg |-> None,
   total_quantity |-> Some(1), first_transaction_date |-> first,
   last_transaction_date |-> None]

McfList ==
  <<McfRow(YM2306, "ExpA", "ImpB", "CN", "US", Some(Codes8542And9901), 5,
          Some(<<2023, 6, 1>>)),
   McfRow(YM2306, "ExpC", "ImpB", "JP", "US", Some(Codes8541And8542), 5, None),
   McfRow(YM2212, "ExpA", "ImpD", "CN", "JP", None, 2, Some(<<2022, 12, 15>>)),
   McfRow(YM2307, "ExpC", "ImpD", "JP", "CN", Some(Codes9901), 1, None)>>
McfUniverse == Range(McfList)

HccUniverse ==
  {[hs_code |-> Prefix85, chapter_name |-> "Electrical machinery",
    category_id |-> Some("equipment")],
   [hs_code |-> Prefix99, chapter_name |-> "Special classification",
    category_id |-> Some("raw_material")]}

CompanyLists == {<<>>, <<"ExpA">>, <<"ExpA", "ImpD">>}
CategoryLists == {<<>>, <<"equipment">>, <<"equipment", "raw_material">>}

FlowParams ==
  [start_year_month : Opt(YearMonthInputs),
   end_year_month : Opt(YearMonthInputs),
   country : Opt(CountryLists), company : Opt(CompanyLists),
   category_id : Opt(CategoryLists), hs_code : Opt(HsPrefixLists)]

FlowDefaults ==
  [start_year_month |-> None, end_year_month |-> None, country |-> None,
   company |-> None, category_id |-> None, hs_code |-> None]

\* Variant: the country and company conditions are joined with OR.
FlowsCommonWhere_Or(p, r) ==
  /\ TruthySeq(p.start_year_month) => StrLeq(p.start_year_month[1], r.year_month)
  /\ TruthySeq(p.end_year_month) => StrLeq(r.year_month, p.end_year_month[1])
  /\ (TruthySeq(p.country) \/ TruthySeq(p.company)) =>
       \/ /\ TruthySeq(p.country)
          /\ \/ r.origin_country \in Range(p.country[1])
             \/ r.destination_country \in Range(p.country[1])
       \/ /\ TruthySeq(p.company)
          /\ \/ r.exporter_name \in Range(p.company[1])
             \/ r.importer_name \in Range(p.company[1])

\* The conditions every branch of the query carries.
FlowsCommonWhere(p, r) ==
  /\ TruthySeq(p.start_year_month) => StrLeq(p.start_year_month[1], r.year_month)
  /\ TruthySeq(p.end_year_month) => StrLeq(r.year_month, p.end_year_month[1])
  /\ TruthySeq(p.country) =>
       \/ r.origin_country \in Range(p.country[1])
       \/ r.destination_country \in Range(p.country[1])
  /\ TruthySeq(p.company) =>
       \/ r.exporter_name \in Range(p.company[1])
       \/ r.importer_name \in Range(p.company[1])

\* Variant: every code of the row has to belong to a requested category.
FlowsCodeWhere_EveryCode(d, p, r) ==
  IF TruthySeq(p.hs_code)
  THEN \E c \in Chapters(r.hs_codes) : c \in Range(p.hs_code[1])
  ELSE IF TruthySeq(p.category_id)
  THEN /\ Chapters(r.hs_codes) # {}
       /\ \A c \in Chapters(r.hs_codes) : \E h \in d.hcc :
            /\ h.hs_code = c
            /\ h.category_id # None
            /\ h.category_id[1] \in Range(p.category_id[1])
  ELSE TRUE

\* hs_code takes the first branch; category_id is read only without it.
FlowsCodeWhere(d, p, r) ==
  IF TruthySeq(p.hs_code)
  THEN \E c \in Chapters(r.hs_codes) : c \in Range(p.hs_code[1])
  ELSE IF TruthySeq(p.category_id)
  THEN \E c \in Chapters(r.hs_codes) : \E h \in d.hcc :
         /\ h.hs_code = c
         /\ h.category_id # None
         /\ h.category_id[1] \in Range(p.category_id[1])
  ELSE TRUE

FlowsWhere(d, p, r) == FlowsCodeWhere(d, p, r) /\ FlowsCommonWhere(p, r)

\* ORDER BY year_month DESC, total_value_usd DESC
FlowsOrder(a, b) ==
  \/ (a.year_month # b.year_month /\ StrLeq(b.year_month, a.year_month))
  \/ (a.year_month = b.year_month /\ a.total_value_usd > b.total_value_usd)

\* date.strftime('%Y-%m-%d')
DateStr(dt) == StrOf(dt[1]) \o <<"-">> \o Pad2(dt[2]) \o <<"-">> \o Pad2(dt[3])
FormatDate(x) == IF x = None THEN None ELSE Some(DateStr(x[1]))

FlowDict(r) ==
  [RowDict(r) EXCEPT !.first_transaction_date = FormatDate(@),
                     !.last_transaction_date = FormatDate(@)]

\* The statement joins hs_code_categories only in the category_id branch.
FlowsExecError(d, p) ==
  IF ExecError(d, "monthly_company_flows", FALSE) # None
  THEN ExecError(d, "monthly_company_flows", FALSE)
  ELSE IF ~TruthySeq(p.hs_code) /\ TruthySeq(p.category_id)
  THEN ExecError(d, "hs_code_categories", FALSE)
  ELSE None

get_monthly_company_flows(d, p) ==
  IF FlowsExecError(d, p) # None
  THEN {HttpError(500, FlowsExecError(d, p)[1])}
  ELSE {OkList([i \in 1..Len(s) |-> FlowDict(s[i])]) :
          s \in SortedSeqs({r \in d.mcf : FlowsWhere(d, p, r)}, FlowsOrder)}

\* The requests that supply at most MaxFilters parameters.
FlowRequests ==
  {p \in FlowParams : Supplied(p, FlowDefaults) <= MaxFilters}

GetMonthlyCompanyFlows ==
  /\ req = NoReq
  /\ \E p \in FlowRequests :
       /\ \E r \in get_monthly_company_flows(db, p) :
            /\ req' = [endpoint |-> "get_monthly_company_flows", params |-> p]
            /\ resp' = AsListResponse(r)
  /\ UNCHANGED db

(***************************************************************************)
(* routes/hs_code_categories.py, routes/country_locations.py,              *)
(* routes/country_locations_compat.py                                      *)
(***************************************************************************)
NoParams == [none |-> None]

\* ORDER BY hs_code
HsCodeAsc(a, b) == a.hs_code # b.hs_code /\ StrLeq(a.hs_code, b.hs_code)

get_hs_code_categories(d) ==
  IF CatalogError(d) # None THEN {OkList(<<>>)}
  ELSE IF "hs_code_categories" \notin d.tables THEN {OkList(<<>>)}
  ELSE IF ExecError(d, "hs_code_categories", FALSE) # None
       THEN IF RouteSaysMissing(ExecError(d, "hs_code_categories", FALSE)[1])
            THEN {OkList(<<>>)}
            ELSE {OkList(<<>>)}
  ELSE {OkList([i \in 1..Len(s) |-> RowDict(s[i])]) :
          s \in SortedSeqs(d.hcc, HsCodeAsc)}

GetHsCodeCategories ==
  /\ req = NoReq
  /\ \E r \in get_hs_code_categories(db) :
       /\ req' = [endpoint |-> "get_hs_code_categories", params |-> NoParams]
       /\ resp' = AsListResponse(r)
  /\ UNCHANGED db

PlRow(port, cc, cn, lat) ==
  [port_name |-> port, country_code |-> cc, country_name |-> cn,
   latitude |-> lat, longitude |-> 0, region |-> None, continent |-> None]

PlList ==
  <<PlRow("Shanghai", "CN", "China", 31),
    PlRow("Shenzhen", "CN", "China", 22),
    PlRow("Tokyo", "JP", "Japan", 35)>>
PlUniverse == Range(PlList)

\* Text order of the names in the table.
NameRank(n) ==
  CASE n = "China" -> 1 [] n = "Japan" -> 2 [] n = "Shanghai" -> 3
    [] n = "Shenzhen" -> 4 [] n = "Tokyo" -> 5 [] n = "CN" -> 6
    [] n = "JP" -> 7 [] OTHER -> 0

PortParams == [country_code : Opt(CountryInputs)]

\* WHERE country_code = :country_code ORDER BY port_name, or
\* ORDER BY country_name, port_name
PortOrder(p, a, b) ==
  IF TruthyStr(p.country_code)
  THEN NameRank(a.port_name) < NameRank(b.port_name)
  ELSE \/ NameRank(a.country_name) < NameRank(b.country_name)
       \/ /\ a.country_name = b.country_name
          /\ NameRank(a.port_name) < NameRank(b.port_name)

get_port_locations(d, p) ==
  IF ExecError(d, "port_locations", FALSE) # None
  THEN IF RouteSaysMissing(ExecError(d, "port_locations", FALSE)[1])
       THEN {OkList(<<>>)}
       ELSE {OkList(<<>>)}
  ELSE LET hit == {r \in d.pl :
                     TruthyStr(p.country_code) => r.country_code = p.country_code[1]}
           Before(a, b) == PortOrder(p, a, b)
       IN {OkList([i \in 1..Len(s) |-> RowDict(s[i])]) :
             s \in SortedSeqs(hit, Before)}

GetPortLocations ==
  /\ req = NoReq
  /\ \E p \in PortParams : \E r \in get_port_locations(db, p) :
       /\ req' = [endpoint |-> "get_port_locations", params |-> p]
       /\ resp' = AsListResponse(r)
  /\ UNCHANGED db

\* The country columns of a port row.
CountryOf(r) ==
  [country_code |-> r.country_code, country_name |-> r.country_name,
   latitude |-> r.latitude, longitude |-> r.longitude,
   region |-> r.region, continent |-> r.continent]

CountryCodeAsc(a, b) == NameRank(a.country_code) < NameRank(b.country_code)
CountryNameAsc(a, b) == NameRank(a.country_name) < NameRank(b.country_name)

\* SELECT DISTINCT ON (country_code) ... ORDER BY country_code, country_name:
\* per country code, a row with the least country_name; which one is the
\* engine's choice.
DistinctOnCountry(rows) ==
  LET codes == {r.country_code : r \in rows}
      first(c) == {r \in rows : /\ r.country_code = c
                                /\ \A o \in rows : o.country_code = c =>
                                     ~CountryNameAsc(o, r)}
  IN {S \in SUBSET {CountryOf(r) : r \in rows} :
        /\ Cardinality(S) = Cardinality(codes)
        /\ \A c \in codes : \E r \in first(c) : CountryOf(r) \in S}

get_country_locations_from_ports(d) ==
  IF ExecError(d, "port_locations", FALSE) # None
  THEN IF RouteSaysMissing(ExecError(d, "port_locations", FALSE)[1])
       THEN {OkList(<<>>)}
       ELSE {OkList(<<>>)}
  ELSE {OkList([i \in 1..Len(s) |-> RowDict(s[i])]) :
          s \in UNION {SortedSeqs(S, CountryCodeAsc) : S \in DistinctOnCountry(d.pl)}}

GetCountryLocationsFromPorts ==
  /\ req = NoReq
  /\ \E r \in get_country_locations_from_ports(db) :
       /\ req' = [endpoint |-> "get_country_locations_from_ports",
                  params |-> NoParams]
       /\ resp' = AsListResponse(r)
  /\ UNCHANGED db

\* GROUP BY country_code, country_name, latitude, longitude, region, continent
\* ORDER BY country_name
get_country_locations(d) ==
  IF CatalogError(d) # None THEN {OkList(<<>>)}
  ELSE IF "port_locations" \notin d.tables THEN {OkList(<<>>)}
  ELSE IF ExecError(d, "port_locations", FALSE) # None
       THEN IF RouteSaysMissing(ExecError(d, "port_locations", FALSE)[1])
            THEN {OkList(<<>>)}
            ELSE {OkList(<<>>)}
  ELSE {OkList([i \in 1..Len(s) |-> RowDict(s[i])]) :
          s \in SortedSeqs({CountryOf(r) : r \in d.pl}, CountryNameAsc)}

GetCountryLocations ==
  /\ req = NoReq
  /\ \E r \in get_country_locations(db) :
       /\ req' = [endpoint |-> "get_country_locations", params |-> NoParams]
       /\ resp' = AsListResponse(r)
  /\ UNCHANGED db

(***************************************************************************)
(* routes/transactions.py: get_transactions                                *)
(***************************************************************************)
DefaultPageLimit == 100

Date230601 == <<"2", "0", "2", "3", "-", "0", "6", "-", "0", "1">>
DateNoSep == <<"2", "0", "2", "3", "0", "6", "0", "1">>
DateInputs == {<<>>, Date230601, DateNoSep}

\* datetime.fromisoformat on a calendar date: YYYY-MM-DD.
IsoParses(s) ==
  LET parts == Split(s, "-") IN
  /\ Len(parts) = 3
  /\ Len(parts[1]) = 4 /\ Len(parts[2]) = 2 /\ Len(parts[3]) = 2
  /\ \A i \in 1..3 : IntParses(parts[i])
  /\ IntOf(parts[2]) \in 1..12
  /\ IntOf(parts[3]) \in 1..31
IsoDate(s) ==
  LET parts == Split(s, "-") IN <<IntOf(parts[1]), IntOf(parts[2]), IntOf(parts[3])>>

\* Order of two dates <<y, m, d>>.
DateLeq(a, b) ==
  \/ a[1] < b[1]
  \/ a[1] = b[1] /\ a[2] < b[2]
  \/ a[1] = b[1] /\ a[2] = b[2] /\ a[3] <= b[3]

\* A status parameter as its tokens: words, "," and " ".
StatusInputs == {<<>>, <<"completed">>, <<"completed", ",", " ", "pending">>}

\* [s.strip() for s in status.split(',')], on the tokens.
StatusList(st) ==
  LET parts == Split(st, ",") IN
  [i \in 1..Len(parts) |-> Trim(parts[i])]

TxRow(id, ex, im, o, dst, cat, dt, val, st) ==
  [id |-> id, exporter_company_id |-> ex, importer_company_id |-> im,
   origin_country_code |-> o, destination_country_code |-> dst,
   category_id |-> cat, transaction_date |-> dt, quantity |-> 1,
   price |-> val, total_value |-> val, status |-> st]

TxList ==
  <<TxRow("t1", Some("c1"), Some("c2"), "CN", "US", "equipment", <<2023, 6, 1>>, 5,
         "completed"),
   TxRow("t2", None, Some("c2"), "JP", "US", "raw_material", <<2023, 6, 1>>, 3,
         "pending"),
   TxRow("t3", Some("c1"), Some("c3"), "CN", "JP", "equipment", <<2022, 12, 15>>, 0,
         "completed"),
   TxRow("t4", Some("c3"), None, "US", "CN", "raw_material", <<2023, 7, 2>>, 7,
         "cancelled")>>
TxUniverse == Range(TxList)

CategoryRows ==
  {[id |-> "equipment", display_name |-> "Equipment", color |-> "blue"],
   [id |-> "raw_material", display_name |-> "Raw material", color |-> "red"]}
CompanyRows ==
  {[id |-> "c1", name |-> "ExpA"], [id |-> "c2", name |-> "ImpB"],
   [id |-> "c3", name |-> "ImpD"]}

CompanyIdInputs == {"", "c1"}
DestinationInputs == {"", "US"}
ValueInputs == {0, 3}
PageInputs == {1, 2}
PageLimitInputs == {DefaultPageLimit, 1}

TransactionParams ==
  [start_date : Opt(DateInputs), end_date : Opt(DateInputs),
   origin_country : Opt(CountryLists),
   destination_country : Opt(DestinationInputs),
   category_id : Opt(CategoryLists), company_id : Opt(CompanyIdInputs),
   min_value : Opt(ValueInputs), max_value : Opt(ValueInputs),
   status : Opt(StatusInputs), page : PageInputs, limit : PageLimitInputs]

TransactionDefaults ==
  [start_date |-> None, end_date |-> None, origin_country |-> None,
   destination_country |-> None, category_id |-> None, company_id |-> None,
   min_value |-> None, max_value |-> None, status |-> None, page |-> 1,
   limit |-> DefaultPageLimit]

\* fromisoformat raises ValueError; the handler does not catch it.
TransactionDateRaises(p) ==
  \/ TruthySeq(p.start_date) /\ ~IsoParses(p.start_date[1])
  \/ TruthySeq(p.end_date) /\ ~IsoParses(p.end_date[1])

TransactionsWhere(p, t) ==
  /\ TruthySeq(p.start_date) => DateLeq(IsoDate(p.start_date[1]), t.transaction_date)
  /\ TruthySeq(p.end_date) => DateLeq(t.transaction_date, IsoDate(p.end_date[1]))
  /\ TruthySeq(p.origin_country) =>
       \/ t.origin_country_code \in Range(p.origin_country[1])
       \/ t.destination_country_code \in Range(p.origin_country[1])
  /\ TruthyStr(p.destination_country) =>
       t.destination_country_code = p.destination_country[1]
  /\ TruthySeq(p.category_id) => t.category_id \in Range(p.category_id[1])
  /\ TruthyStr(p.company_id) =>
       \/ t.exporter_company_id = Some(p.company_id[1])
       \/ t.importer_company_id = Some(p.company_id[1])
  /\ p.min_value # None => t.total_value >= p.min_value[1]
  /\ p.max_value # None => t.total_value <= p.max_value[1]
  /\ TruthySeq(p.status) =>
       \E i \in 1..Len(StatusList(p.status[1])) :
         StatusList(p.status[1])[i] = <<t.status>>

\* order_by(transaction_date.desc())
DateDesc(a, b) ==
  a.transaction_date # b.transaction_date
    /\ DateLeq(b.transaction_date, a.transaction_date)

\* .offset(n)
Offset(s, n) == SubSeq(s, n + 1, Len(s))

CompanyName(d, id) ==
  IF id = None \/ ~\E c \in d.companies : c.id = id[1] THEN None
  ELSE Some((CHOOSE c \in d.companies : c.id = id[1]).name)

build_transaction_response(d, t) ==
  LET category == CHOOSE c \in d.categories : c.id = t.category_id IN
  [id |-> t.id,
   exporter_company_id |-> t.exporter_company_id,
   exporter_company_name |-> CompanyName(d, t.exporter_company_id),
   exporter_country_code |-> t.origin_country_code,
   importer_company_id |-> t.importer_company_id,
   importer_company_name |-> CompanyName(d, t.importer_company_id),
   importer_country_code |-> t.destination_country_code,
   category_id |-> category.id, category_name |-> category.display_name,
   category_color |-> category.color, quantity |-> t.quantity,
   price |-> t.price, total_value |-> t.total_value,
   transaction_date |-> t.transaction_date, status |-> t.status]

\* Variant: the quotient is rounded down.
CeilDiv_Floor(a, b) == a \div b

\* math.ceil(total / limit)
CeilDiv(a, b) == (a + b - 1) \div b

get_transactions(d, p) ==
  IF TransactionDateRaises(p) THEN {InternalError(ValueError)}
  ELSE IF ExecError(d, "transactions", FALSE) # None
       THEN {InternalError(ExecError(d, "transactions", FALSE)[1])}
  ELSE LET hit == {t \in d.tx : TransactionsWhere(p, t)}
           total == Cardinality(hit)
       IN {[status |-> 200, kind |-> "page",
            body |-> <<[transactions |->
                          [i \in 1..Len(s) |-> build_transaction_response(d, s[i])],
                        pagination |->
                          [total |-> total, page |-> p.page, limit |-> p.limit,
                           total_pages |->
                             IF total > 0 THEN CeilDiv(total, p.limit) ELSE 0]]>>] :
             s \in {Limit(Offset(o, (p.page - 1) * p.limit), p.limit) :
                      o \in SortedSeqs(hit, DateDesc)}}

\* The requests that supply at most MaxFilters parameters.
TransactionRequests ==
  {p \in TransactionParams : Supplied(p, TransactionDefaults) <= MaxFilters}

GetTransactions ==
  /\ req = NoReq
  /\ \E p \in TransactionRequests :
       /\ \E r \in get_transactions(db, p) :
            /\ req' = [endpoint |-> "get_transactions", params |-> p]
            /\ resp' = r
  /\ UNCHANGED db

(***************************************************************************)
(* Store states.                                                           *)
(***************************************************************************)
EmptyDb ==
  [up |-> TRUE, tables |-> Tables, drift |-> {},
   cots |-> {}, cmts |-> {}, mcf |-> {}, hcc |-> HccUniverse, pl |-> {},
   tx |-> {}, categories |-> CategoryRows, companies |-> CompanyRows]

\* A provisioned store with a few rows in every table.
SeededDb ==
  [EmptyDb EXCEPT !.cots = {r \in CotsUniverse : r.year = 2023 /\ r.month = 6},
                  !.cmts = {r \in CmtsUniverse : r.year = 2023 /\ r.month = 6},
                  !.mcf = {r \in McfUniverse : r.year_month = YM2306},
                  !.pl = PlUniverse,
                  !.tx = {t \in TxUniverse : t.status = "completed"}]

\* The conditions a deployment can be in: provisioned, a relation not yet
\* created, a relation whose columns differ from the ones the queries name,
\* the server unreachable.
Deployments ==
  {SeededDb, [SeededDb EXCEPT !.up = FALSE]}
    \cup {[SeededDb EXCEPT !.tables = Tables \ {t}] : t \in Tables}
    \cup {[SeededDb EXCEPT !.drift = {t}] : t \in Tables}

\* The rows of a table drawn by the index set S.
Pick(list, S) == {list[i] : i \in S \cap (1..Len(list))}

\* Stores of at most MaxRows rows per fact table.  One index set draws the
\* rows of every fact table (each handler reads its own table only); an
\* index past the end of the flows list draws the chapter table without
\* its chapter 99 row.
Contents ==
  {[EmptyDb EXCEPT !.cots = Pick(CotsList, S), !.cmts = Pick(CmtsList, S),
                   !.mcf = Pick(McfList, S), !.tx = Pick(TxList, S),
                   !.pl = Pick(PlList, S),
                   !.hcc = IF S \subseteq 1..Len(McfList) THEN HccUniverse
                           ELSE {h \in HccUniverse : h.hs_code = Prefix85}] :
     S \in BoundedSubsets(1..Len(CotsList), MaxRows)}

Init ==
  /\ db \in Contents
  /\ req = NoReq
  /\ resp = NoResp

InitDeploy ==
  /\ db \in Deployments
  /\ req = NoReq
  /\ resp = NoResp

Next ==
  \/ GetShipments
  \/ GetCountryTradeStats
  \/ GetCountryTradeStatsSummary
  \/ GetCountryTradeTrends
  \/ GetTopCountries
  \/ GetMonthlyCompanyFlows
  \/ GetHsCodeCategories
  \/ GetPortLocations
  \/ GetCountryLocationsFromPorts
  \/ GetCountryLocations
  \/ GetTransactions

\* Requests against stores that differ in their rows.
Spec == Init /\ [][Next]_vars

\* Requests against deployments that differ in what is provisioned.
SpecDeploy == InitDeploy /\ [][Next]_vars

(***************************************************************************)
(* Routing (main.py include_router): the responses a request can end in.   *)
(***************************************************************************)
Handle(d, e, p) ==
  CASE e = "get_shipments" ->
         {AsListResponse(r) : r \in get_shipments(d, p)}
    [] e = "get_country_trade_stats" ->
         {AsListResponse(r) : r \in get_country_trade_stats(d, p)}
    [] e = "get_country_trade_stats_summary" ->
         {get_country_trade_stats_summary(d, p)}
    [] e = "get_country_trade_trends" ->
         {AsListResponse(r) : r \in get_country_trade_trends(d, p)}
    [] e = "get_top_countries" ->
         {AsListResponse(r) : r \in get_top_countries(d, p)}
    [] e = "get_monthly_company_flows" ->
         {AsListResponse(r) : r \in get_monthly_company_flows(d, p)}
    [] e = "get_hs_code_categories" ->
         {AsListResponse(r) : r \in get_hs_code_categories(d)}
    [] e = "get_port_locations" ->
         {AsListResponse(r) : r \in get_port_locations(d, p)}
    [] e = "get_country_locations_from_ports" ->
         {AsListResponse(r) : r \in get_country_locations_from_ports(d)}
    [] e = "get_country_locations" ->
         {AsListResponse(r) : r \in get_country_locations(d)}
    [] e = "get_transactions" -> get_transactions(d, p)
    [] OTHER -> {}

(***************************************************************************)
(* Vocabulary of the properties.                                           *)
(***************************************************************************)
Served == req # NoReq

\* The rows of a response, as a set.
RespRows(r) ==
  IF r.kind = "list" THEN Range(r.body)
  ELSE IF r.kind = "page" THEN Range(r.body[1].transactions)
  ELSE {}

ReportingEndpoints ==
  {"get_shipments", "get_country_trade_stats",
   "get_country_trade_stats_summary", "get_country_trade_trends",
   "get_top_countries", "get_monthly_company_flows",
   "get_hs_code_categories", "get_port_locations",
   "get_country_locations_from_ports", "get_country_locations"}

\* The fact table an endpoint reads.
TableOf(e) ==
  CASE e = "get_shipments" -> "country_origin_trade_stats"
    [] e \in {"get_country_trade_stats", "get_country_trade_stats_summary",
              "get_country_trade_trends", "get_top_countries"} ->
         "country_monthly_trade_stats"
    [] e = "get_monthly_company_flows" -> "monthly_company_flows"
    [] e = "get_hs_code_categories" -> "hs_code_categories"
    [] e = "get_transactions" -> "transactions"
    [] OTHER -> "port_locations"

\* The endpoints that read start_year_month / end_year_month.
YearMonthEndpoints ==
  {"get_shipments", "get_country_trade_stats",
   "get_country_trade_stats_summary", "get_country_trade_trends",
   "get_monthly_company_flows"}

\* A year-month parameter of the request is supplied without a '-'.
LacksSeparator(o) == o # None /\ Len(o[1]) > 0 /\ "-" \notin Range(o[1])
MalformedYearMonth(rq) ==
  /\ rq.endpoint \in YearMonthEndpoints
  /\ \/ LacksSeparator(rq.params.start_year_month)
     \/ LacksSeparator(rq.params.end_year_month)

\* No year-month parameter of the request fails to parse.
WellFormed(rq) ==
  rq.endpoint \in YearMonthEndpoints \ {"get_monthly_company_flows"}
    => ~YearMonthRaises(rq.params)

\* The request's LIMIT is negative.
NegLimit(rq) ==
  /\ rq.endpoint \in {"get_shipments", "get_country_trade_stats", "get_top_countries"}
  /\ rq.params.limit < 0

(***************************************************************************)
(* Missing-relation guard.                                                 *)
(***************************************************************************)
\* The error the request's data query raises when it is executed, or None.
QueryError(d, rq) ==
  IF rq.endpoint = "get_monthly_company_flows" THEN FlowsExecError(d, rq.params)
  ELSE ExecError(d, TableOf(rq.endpoint), NegLimit(rq))

\* The handler gets as far as executing its data query.
QueryExecuted(d, rq) ==
  /\ WellFormed(rq)
  /\ rq.endpoint \in {"get_shipments", "get_hs_code_categories",
                      "get_country_locations"}
       => d.up /\ TableOf(rq.endpoint) \in d.tables

\* C1: on every reporting read endpoint, a query failure that is not a
\* missing relation (a nonexistent column, say) ends the request in a
\* server error, never in an empty list or a default record.
C1_OtherFailureIsServerError ==
  (/\ Served
   /\ req.endpoint \in ReportingEndpoints
   /\ QueryExecuted(db, req)
   /\ QueryError(db, req) # None
   /\ ~is_missing_table_error(QueryError(db, req)[1]))
    => resp.status >= 500

\* C2: on every reporting read path, an absent backing table does not end
\* the request in an error: list endpoints return an empty sequence, the
\* summary endpoint its zero-valued default record.
C2_MissingTableRecovered ==
  (/\ Served
   /\ req.endpoint \in ReportingEndpoints
   /\ WellFormed(req)
   /\ db.up
   /\ TableOf(req.endpoint) \notin db.tables)
    => IF req.endpoint = "get_country_trade_stats_summary"
       THEN /\ resp.status = 200 /\ resp.kind = "record"
            /\ resp.body[1].total_countries = Some(0)
            /\ resp.body[1].total_trade_value = Some(0)
       ELSE resp = OkList(<<>>)

(***************************************************************************)
(* Year-month input.                                                       *)
(***************************************************************************)
\* C7: a start_year_month or end_year_month without the '-' separator
\* fails the request with a client error (4xx).
C7_MalformedYearMonthIsClientError ==
  (Served /\ MalformedYearMonth(req)) => resp.status \in 400..499

(***************************************************************************)
(* Summary.                                                                *)
(***************************************************************************)
\* C8: no total of a summary record is NULL, in any outcome; on an empty
\* filtered set total_trade_value = 0.0 and total_countries = 0.
C8_SummaryTotalsNeverNull ==
  (Served /\ req.endpoint = "get_country_trade_stats_summary")
    => /\ resp.kind = "record"
       /\ resp.body[1].total_trade_value # None
       /\ resp.body[1].total_weight # None
       /\ resp.body[1].total_quantity # None
       /\ resp.body[1].total_trade_count # None
       /\ (WellFormed(req) /\ ~\E r \in db.cmts : StatsWhere(req.params, r))
            => /\ resp.body[1].total_trade_value = Some(0)
               /\ resp.body[1].total_countries = Some(0)

(***************************************************************************)
(* Filter builder.                                                         *)
(***************************************************************************)
\* The multi-value (list) filter parameters of each list endpoint.
ListParams(e) ==
  CASE e = "get_shipments" -> {"country", "hs_code", "hs_code_prefix"}
    [] e \in {"get_country_trade_stats", "get_country_trade_stats_summary"} ->
         {"hs_code", "country"}
    [] e = "get_monthly_company_flows" ->
         {"country", "company", "category_id", "hs_code"}
    [] e = "get_transactions" -> {"origin_country", "category_id"}
    [] OTHER -> {}

\* C3: for every multi-value filter parameter of every list endpoint, every
\* table content and every setting of the other parameters, supplying an
\* empty list yields exactly the results of omitting the parameter.
C3_EmptyListIsOmitted ==
  Served =>
    \A k \in ListParams(req.endpoint) :
      req.params[k] = Some(<<>>) =>
        /\ Handle(db, req.endpoint, req.params)
             = Handle(db, req.endpoint, [req.params EXCEPT ![k] = None])
        /\ resp \in Handle(db, req.endpoint, [req.params EXCEPT ![k] = None])

\* An empty hs_code list was supplied next to a category filter that kept
\* some flows and dropped others.
C3_Witness ==
  /\ Served
  /\ req.endpoint = "get_monthly_company_flows"
  /\ req.params.hs_code = Some(<<>>)
  /\ TruthySeq(req.params.category_id)
  /\ resp.status = 200
  /\ RespRows(resp) # {}
  /\ Cardinality(RespRows(resp)) < Cardinality(db.mcf)

\* The columns that identify a row of country_origin_trade_stats.
ShipmentKey(r) ==
  <<r.year, r.month, r.hs_code, r.origin_country_code,
    r.destination_country_code>>

\* C5: in get_shipments, with a non-empty hs_code list the rows returned are
\* exactly those whose hs_code is in the list (subject to the other filters)
\* for every value of hs_code_prefix; the prefix filter is applied only when
\* hs_code is absent.
C5_FullCodeOverridesPrefix ==
  (Served /\ req.endpoint = "get_shipments" /\ WellFormed(req)
          /\ ~NegLimit(req))
    => LET p == req.params
           others(r) == /\ YearMonthRange(p, r)
                        /\ ShipmentsCountryFilter(p, r)
                        /\ ShipmentsIndustryFilter(p, r)
           byCode == {c \in db.cots :
                        others(c) /\ c.hs_code \in Range(p.hs_code[1])}
           byPrefix == {c \in db.cots :
                          others(c) /\ SubSeq(c.hs_code, 1, 2)
                                         \in Range(p.hs_code_prefix[1])}
           returned == {ShipmentKey(row) : row \in RespRows(resp)}
           untruncated == p.limit = 0 \/ p.limit >= Cardinality(db.cots)
       IN /\ TruthySeq(p.hs_code) =>
               /\ \A x \in Opt(HsPrefixLists) :
                    Handle(db, "get_shipments", [p EXCEPT !.hs_code_prefix = x])
                      = Handle(db, "get_shipments", p)
               /\ returned \subseteq {ShipmentKey(c) : c \in byCode}
               /\ untruncated => returned = {ShipmentKey(c) : c \in byCode}
          /\ (~TruthySeq(p.hs_code) /\ TruthySeq(p.hs_code_prefix)) =>
               /\ returned \subseteq {ShipmentKey(c) : c \in byPrefix}
               /\ untruncated => returned = {ShipmentKey(c) : c \in byPrefix}

\* A full code of chapter 85 and the prefix 99 were supplied together and
\* chapter-85 rows came back.
C5_Witness ==
  /\ Served
  /\ req.endpoint = "get_shipments"
  /\ req.params.hs_code = Some(<<HsA>>)
  /\ req.params.hs_code_prefix = Some(<<Prefix99>>)
  /\ resp.status = 200
  /\ \E row \in RespRows(resp) : row.hs_code = HsA

(***************************************************************************)
(* Filter composability.                                                   *)
(***************************************************************************)
\* The list endpoints that return the filtered rows themselves.
RowEndpoints ==
  {"get_shipments", "get_country_trade_stats", "get_monthly_company_flows",
   "get_transactions"}

\* The parameter values of an endpoint's request with nothing supplied.
DefaultsOf(e) ==
  CASE e = "get_shipments" -> ShipmentDefaults
    [] e = "get_country_trade_stats" -> StatsDefaults
    [] e = "get_monthly_company_flows" -> FlowDefaults
    [] e = "get_transactions" -> TransactionDefaults

\* The filter parameters the request supplies (paging is not a filter).
SuppliedFilters(rq) ==
  {k \in DOMAIN rq.params \ {"limit", "page"} :
     rq.params[k] # DefaultsOf(rq.endpoint)[k]}

\* The row limit of the request cuts nothing off.
Untruncated(d, rq) ==
  IF rq.endpoint = "get_transactions"
  THEN rq.params.page = 1 /\ rq.params.limit >= Cardinality(d.tx)
  ELSE IF rq.endpoint = "get_monthly_company_flows" THEN TRUE
  ELSE rq.params.limit >= MaxRows + 1

\* The rows endpoint e returns for parameters p.
RowsOf(d, e, p) == UNION {RespRows(r) : r \in Handle(d, e, p)}

\* The request with parameter k left out.
Without(rq, k) == [rq.params EXCEPT ![k] = DefaultsOf(rq.endpoint)[k]]

\* The two code filters of which the handler reads at most one: the second
\* is consulted only when the first is empty.
RankedPair(e, k1, k2) ==
  \/ e = "get_shipments" /\ k1 = "hs_code" /\ k2 = "hs_code_prefix"
  \/ e = "get_monthly_company_flows" /\ k1 = "hs_code" /\ k2 = "category_id"

\* For each supplied filter, the rows the request returns without it.
RowsWithout(d, rq) ==
  [k \in SuppliedFilters(rq) |-> RowsOf(d, rq.endpoint, Without(rq, k))]

\* Every two supplied filters of the request compose as an intersection:
\* the rows returned are those returned without the one and also without
\* the other.
AllPairsIntersect(d, rq) ==
  LET rows == RowsWithout(d, rq) IN
  \A k1, k2 \in SuppliedFilters(rq) :
    k1 # k2 => RespRows(resp) = rows[k2] \cap rows[k1]

\* C4 as stated: any two distinct filter parameters of one list endpoint
\* supplied together return the intersection of the rows each returns alone,
\* hs_code with category_id on get_monthly_company_flows included.
C4_AnyTwoFiltersIntersect ==
  (Served /\ req.endpoint \in RowEndpoints /\ Untruncated(db, req))
    => AllPairsIntersect(db, req)

\* The supplied filters the handler does not read: the lower-ranked code
\* filter of a request whose hs_code is non-empty.
Shadowed(rq) ==
  {k2 \in SuppliedFilters(rq) :
     \E k1 \in SuppliedFilters(rq) :
       RankedPair(rq.endpoint, k1, k2) /\ TruthySeq(rq.params[k1])}

\* C4: two distinct filter parameters supplied together return the
\* intersection of the rows each returns alone, unless the request carries a
\* non-empty hs_code next to the lower-ranked code filter (hs_code_prefix in
\* get_shipments, category_id in get_monthly_company_flows): that filter is
\* then not read, and the rows are those of the request without it.
C4_IndependentFiltersIntersect ==
  (Served /\ req.endpoint \in RowEndpoints /\ Untruncated(db, req))
    => /\ \A k \in Shadowed(req) :
            RespRows(resp) = RowsOf(db, req.endpoint, Without(req, k))
       /\ Shadowed(req) = {} => AllPairsIntersect(db, req)

\* A country filter and a category filter were supplied together; each alone
\* returns more flows than both together, and both together return some.
C4_Witness ==
  /\ Served
  /\ req.endpoint = "get_monthly_company_flows"
  /\ SuppliedFilters(req) = {"country", "category_id"}
  /\ RespRows(resp) # {}
  /\ RowsOf(db, req.endpoint, Without(req, "country")) # RespRows(resp)
  /\ RowsOf(db, req.endpoint, Without(req, "category_id")) # RespRows(resp)

(***************************************************************************)
(* Month range.                                                            *)
(***************************************************************************)
\* The (year, month) a well-formed year-month input denotes.
Period(s) ==
  CASE s = YM2212 -> <<2022, 12>>
    [] s = YM2306 -> <<2023, 6>>
    [] s = YM2307 -> <<2023, 7>>

\* (y1, m1) <= (y2, m2) in lexicographic order.
LexLeq(a, b) == a[1] < b[1] \/ (a[1] = b[1] /\ a[2] <= b[2])

\* A year-month parameter is left out (or empty) or denotes a period.
DenotesPeriod(o) == o = None \/ o[1] \in {YMEmpty, YM2212, YM2306, YM2307}
Bounded(o) == o # None /\ o[1] # YMEmpty

\* The row's period lies between the request's bounds, both inclusive.
InRange(p, row) ==
  /\ Bounded(p.start_year_month) =>
       LexLeq(Period(p.start_year_month[1]), <<row.year, row.month>>)
  /\ Bounded(p.end_year_month) =>
       LexLeq(<<row.year, row.month>>, Period(p.end_year_month[1]))

\* C6: the month-range predicate built from start_year_month and
\* end_year_month selects a row exactly when start <= (year, month) <= end in
\* lexicographic order, both bounds inclusive; start = end = 2023-06 returns
\* only rows of June 2023, and a start after the end returns no row.
C6_MonthRangeIsLexicographic ==
  (/\ Served
   /\ req.endpoint \in {"get_shipments", "get_country_trade_stats"}
   /\ Untruncated(db, req)
   /\ DenotesPeriod(req.params.start_year_month)
   /\ DenotesPeriod(req.params.end_year_month))
    => LET p == req.params
           unbounded == [p EXCEPT !.start_year_month = None,
                                  !.end_year_month = None]
       IN /\ RespRows(resp)
               = {row \in RowsOf(db, req.endpoint, unbounded) : InRange(p, row)}
          /\ (p.start_year_month = Some(YM2306) /\ p.end_year_month = Some(YM2306))
               => \A row \in RespRows(resp) : row.year = 2023 /\ row.month = 6
          /\ (/\ Bounded(p.start_year_month) /\ Bounded(p.end_year_month)
              /\ ~LexLeq(Period(p.start_year_month[1]),
                         Period(p.end_year_month[1])))
               => RespRows(resp) = {}

\* Start and end were both 2023-06 and the statistics of June 2023 came back
\* while rows of other months stayed out.
C6_Witness ==
  /\ Served
  /\ req.endpoint = "get_country_trade_stats"
  /\ req.params.start_year_month = Some(YM2306)
  /\ req.params.end_year_month = Some(YM2306)
  /\ RespRows(resp) # {}
  /\ \E r \in db.cmts : r.year = 2022
  /\ \E r \in db.cmts : r.year = 2023 /\ r.month = 7

(***************************************************************************)
(* Aggregations.                                                           *)
(***************************************************************************)
\* The sum of column col over the rows of S, a NULL counting as nothing.
Total(S, col) ==
  SumOver(S, [r \in S |-> IF r[col] = None THEN 0 ELSE r[col][1]])

\* C9: the trends endpoint returns exactly one row per distinct
\* (year, month) of the filtered set, each row carrying the sums over that
\* period's filtered rows, in strictly ascending order of (year, month).
C9_TrendsOnePerPeriodAscending ==
  (/\ Served
   /\ req.endpoint = "get_country_trade_trends"
   /\ WellFormed(req))
    => LET hit == {r \in db.cmts : TrendWhere(req.params, r)}
           periods == {<<r.year, r.month>> : r \in hit}
           of(k) == {r \in hit : r.year = k[1] /\ r.month = k[2]}
           body == resp.body
       IN /\ resp.status = 200 /\ resp.kind = "list"
          /\ Len(body) = Cardinality(periods)
          /\ \A k \in periods :
               \E i \in 1..Len(body) :
                 /\ body[i].year_month = YearMonthLabel(k[1], k[2])
                 /\ body[i].sum_of_usd = Total(of(k), "sum_of_usd")
                 /\ body[i].weight = Total(of(k), "weight")
                 /\ body[i].quantity = Total(of(k), "quantity")
                 /\ body[i].trade_count = Total(of(k), "trade_count")
          /\ \A i, j \in 1..Len(body) :
               i < j => /\ body[i].year_month # body[j].year_month
                        /\ StrLeq(body[i].year_month, body[j].year_month)

\* Three rows of two periods came back as two trend rows.
C9_Witness ==
  /\ Served
  /\ req.endpoint = "get_country_trade_trends"
  /\ resp.status = 200
  /\ Cardinality({r \in db.cmts : TrendWhere(req.params, r)}) = 3
  /\ Len(resp.body) = 2

\* C10: the top-countries endpoint returns at most `limit` rows (10 when no
\* limit is supplied), at most one per country_code, in non-increasing order
\* of the summed sum_of_usd, and no omitted country has a strictly larger
\* summed sum_of_usd than an included one.
C10_TopCountriesRanked ==
  (/\ Served
   /\ req.endpoint = "get_top_countries"
   /\ req.params.limit >= 0)
    => LET hit == {r \in db.cmts : TopWhere(req.params, r)}
           of(c) == {r \in hit : r.country_code = c}
           body == resp.body
           included == {body[i].country_code : i \in 1..Len(body)}
           omitted == {r.country_code : r \in hit} \ included
       IN /\ resp.status = 200 /\ resp.kind = "list"
          /\ TopDefaults.limit = 10
          /\ Len(body) <= req.params.limit
          /\ Len(body) = Min(req.params.limit,
                             Cardinality({r.country_code : r \in hit}))
          /\ \A i, j \in 1..Len(body) :
               i # j => body[i].country_code # body[j].country_code
          /\ \A i \in 1..Len(body) :
               body[i].sum_of_usd = Total(of(body[i].country_code), "sum_of_usd")
          /\ \A i, j \in 1..Len(body) :
               i < j => body[i].sum_of_usd >= body[j].sum_of_usd
          /\ \A c \in omitted : \A i \in 1..Len(body) :
               Total(of(c), "sum_of_usd") <= body[i].sum_of_usd

\* With limit 1 and several countries in the filtered set, one country came
\* back and a country of smaller summed value stayed out.
C10_Witness ==
  /\ Served
  /\ req.endpoint = "get_top_countries"
  /\ req.params.limit = 1
  /\ resp.status = 200
  /\ Len(resp.body) = 1
  /\ \E r \in db.cmts :
       /\ TopWhere(req.params, r)
       /\ r.country_code # resp.body[1].country_code
       /\ r.sum_of_usd # None
       /\ r.sum_of_usd[1] < resp.body[1].sum_of_usd

(***************************************************************************)
(* backend/scripts/: the batch loaders.                                    *)
(*                                                                         *)
(* The engine is PostgreSQL.  Of its behaviour the loaders meet:           *)
(*   - a statement that raises has no effect, and `with engine.begin()`    *)
(*     rolls the transaction back when its block raises;                   *)
(*   - INSERT .. ON CONFLICT DO UPDATE raises when two rows of one         *)
(*     statement have the same conflict key (cardinality_violation);       *)
(*   - once a statement has raised inside a transaction every later        *)
(*     statement of that transaction raises, and the commit at the end of  *)
(*     the block rolls back;                                               *)
(*   - CURRENT_TIMESTAMP is the start time of the transaction.             *)
(* In a loader store every table is the sequence of its rows and every     *)
(* column value is an optional (a source key that is absent reads None).   *)
(* A run loads one source file.                                            *)
(***************************************************************************)
MaxRuns == 2

BATCH_SIZE == 5000
DefaultBatchSize == 1000
BatchSizeInputs == {1, 2, DefaultBatchSize}

\* dict.get(key, default); dict.get(key) is the field itself.
Get(v, default) == IF v = None THEN Some(default) ELSE v

\* One statistics dict of a source JSON file.
Stat(w, q, cc, usd, tc) ==
  [weight |-> w, quantity |-> q, countryCode |-> cc, sumOfUSD |-> usd,
   weightAvgPrice |-> usd, quantityAvgPrice |-> None, tradeCount |-> tc,
   amountSharePct |-> tc]

StatA == Stat(Some(10), Some(5), Some("CN"), Some(100), Some(3))
StatB == Stat(Some(20), Some(5), Some("CN"), Some(200), Some(0))
StatZeroWeight == Stat(Some(0), Some(5), Some("CN"), Some(100), Some(3))
StatZeroQuantity == Stat(Some(10), Some(0), Some("DE"), Some(100), Some(3))
StatNA == Stat(Some(10), Some(5), Some("N/A"), Some(100), Some(3))
StatNoWeight == Stat(None, Some(5), Some("DE"), Some(100), None)
StatNoCountry == Stat(Some(10), Some(5), None, None, Some(3))
StatLongCountry == Stat(Some(10), Some(5), Some("CHINA"), Some(100), Some(3))

\* len() of the sample country codes.
StrLen(s) ==
  CASE s = "" -> 0
    [] s = "N/A" -> 3
    [] s = "CHINA" -> 5
    [] OTHER -> 2

\* batch_import_all.should_filter_record
should_filter_record(data) ==
  \/ data.weight = Some(0)
  \/ data.quantity = Some(0)
  \/ data.countryCode = Some("N/A")

\* import_country_origin.should_filter_record
origin_should_filter_record(stat_data) ==
  \/ Get(stat_data.weight, 0) = Some(0)
  \/ Get(stat_data.quantity, 0) = Some(0)
  \/ Get(stat_data.countryCode, "") = Some("N/A")

\* int(x.get('tradeCount', 0)) if x.get('tradeCount') else None
TradeCount(data) ==
  IF data.tradeCount # None /\ data.tradeCount[1] # 0 THEN data.tradeCount
  ELSE None

\* Source files.  stem: the file name without its suffix; industry_dir: the
\* directory name the loaders of one file read the industry from; entries: the
\* statistics dicts in document order, each with the keys it is nested under.
Stem2(hs, y) == hs \o <<"_">> \o StrOf(y)
Stem3(hs, y, m) == Stem2(hs, y) \o <<"_">> \o m

OriginEntry(o, d, s) == [origin |-> o, dest |-> d, stat |-> s]
OriginFile(stem, dir, es) == [stem |-> stem, industry_dir |-> dir, entries |-> es]

OriginFiles ==
  {OriginFile(Stem3(HsA, 2023, <<"0", "6">>), "SemiConductor",
              <<OriginEntry("CN", "US", StatA)>>),
   OriginFile(Stem3(HsA, 2023, <<"0", "6">>), "Solar",
              <<OriginEntry("CN", "US", StatB)>>),
   OriginFile(Stem3(HsA, 2023, <<"0", "6">>), "SemiConductor",
              <<OriginEntry("CN", "US", StatA), OriginEntry("CN", "US", StatB)>>),
   OriginFile(Stem3(HsB, 2023, <<"0", "7">>), "SemiConductor",
              <<OriginEntry("CN", "US", StatZeroWeight),
                OriginEntry("N/A", "US", StatA),
                OriginEntry("DE", "N/A", StatA),
                OriginEntry("DE", "US", StatNoWeight),
                OriginEntry("DE", "JP", StatNA),
                OriginEntry("", "JP", StatA)>>),
   OriginFile(Stem3(HsA, 2023, <<"0", "6">>), "SemiConductor",
              <<OriginEntry("CN", "US", StatB), OriginEntry("DE", "US", StatA),
                OriginEntry("JP", "US", StatNoCountry),
                OriginEntry("CHINA", "US", StatA)>>),
   OriginFile(Stem2(HsA, 2023), "SemiConductor",
              <<OriginEntry("CN", "US", StatA)>>)}

MonthlyEntry(m, s) == [month_str |-> m, stat |-> s]
MonthlyFile(stem, dir, es) == [stem |-> stem, industry_dir |-> dir, entries |-> es]

MonthlyFiles ==
  {MonthlyFile(Stem2(HsA, 2023), "SemiConductor",
               <<MonthlyEntry(<<"0", "6">>, StatA)>>),
   MonthlyFile(Stem2(HsA, 2023), "Solar",
               <<MonthlyEntry(<<"0", "6">>, StatB)>>),
   MonthlyFile(Stem2(HsA, 2023), "SemiConductor",
               <<MonthlyEntry(<<"0", "6">>, StatA),
                 MonthlyEntry(<<"0", "6">>, StatB)>>),
   MonthlyFile(Stem2(HsB, 2023), "SemiConductor",
               <<MonthlyEntry(<<"0", "6">>, StatZeroWeight),
                 MonthlyEntry(<<"6">>, StatA),
                 MonthlyEntry(<<"0", "7">>, StatNA),
                 MonthlyEntry(<<"0", "7">>, StatNoCountry),
                 MonthlyEntry(<<"0", "7">>, StatZeroQuantity)>>),
   MonthlyFile(Stem2(HsA, 2023), "SemiConductor",
               <<MonthlyEntry(<<"0", "6">>, StatB),
                 MonthlyEntry(<<"0", "7">>, StatA),
                 MonthlyEntry(<<"0", "7">>, StatLongCountry)>>),
   MonthlyFile(HsA, "SemiConductor", <<MonthlyEntry(<<"0", "6">>, StatA)>>)}

\* f"{hs_code}_{year}_{month:02d}_{origin}_{dest}" and
\* f"{hs_code}_{year}_{month:02d}_{country_code}"
OriginStatId(hs, y, m, o, d) ==
  hs \o <<"_">> \o StrOf(y) \o <<"_">> \o Pad2(m) \o <<"_", o, "_", d>>
MonthlyStatId(hs, y, m, cc) ==
  hs \o <<"_">> \o StrOf(y) \o <<"_">> \o Pad2(m) \o <<"_", cc>>

\* stat_record of the nested (origin -> destination -> list) loaders.
OriginStatRecord(hs, y, m, industry, e) ==
  [id |-> Some(OriginStatId(hs, y, m, e.origin, e.dest)),
   hs_code |-> Some(hs), year |-> Some(y), month |-> Some(m),
   origin_country_code |-> Some(e.origin),
   destination_country_code |-> Some(e.dest),
   industry |-> Some(industry),
   weight |-> e.stat.weight, quantity |-> e.stat.quantity,
   sum_of_usd |-> e.stat.sumOfUSD,
   weight_avg_price |-> e.stat.weightAvgPrice,
   quantity_avg_price |-> e.stat.quantityAvgPrice,
   trade_count |-> TradeCount(e.stat),
   amount_share_pct |-> Get(e.stat.amountSharePct, 0)]

\* stat_record of the flat (month -> list) loaders.
MonthlyStatRecord(hs, y, industry, e) ==
  LET m == IntOf(e.month_str)
      cc == Get(e.stat.countryCode, "")[1]
  IN [id |-> Some(MonthlyStatId(hs, y, m, cc)),
      hs_code |-> Some(hs), year |-> Some(y), month |-> Some(m),
      country_code |-> Some(cc), industry |-> Some(industry),
      weight |-> e.stat.weight, quantity |-> e.stat.quantity,
      sum_of_usd |-> e.stat.sumOfUSD,
      weight_avg_price |-> e.stat.weightAvgPrice,
      quantity_avg_price |-> e.stat.quantityAvgPrice,
      trade_count |-> TradeCount(e.stat),
      amount_share_pct |-> Get(e.stat.amountSharePct, 0)]

\* The loops of batch_import_all.import_country_origin_data over one file:
\* which entries reach the filter, and which of those become records.
BatchOriginReaches(e) == e.origin \notin {"", "N/A"} /\ e.dest \notin {"", "N/A"}
BatchOriginKeeps(e) ==
  /\ BatchOriginReaches(e)
  /\ ~should_filter_record(e.stat)
  /\ Get(e.stat.countryCode, e.origin) # Some("N/A")

\* The loops of import_country_origin.import_json_file.
OriginReaches(e) == e.origin # "N/A" /\ e.dest # "N/A"
OriginKeeps(e) ==
  /\ OriginReaches(e)
  /\ ~origin_should_filter_record(e.stat)
  /\ Get(e.stat.countryCode, e.origin) # Some("N/A")

\* The loops of batch_import_all.import_monthly_data and of
\* import_country_trade_stats.import_json_file (the same statements).
MonthlyReaches(e) ==
  Len(e.month_str) = 2 /\ \A i \in 1..Len(e.month_str) : IsDigit(e.month_str[i])
MonthlyKeeps(e) ==
  /\ MonthlyReaches(e)
  /\ Get(e.stat.countryCode, "") \notin {Some(""), Some("N/A")}

\* Indexes of the entries of a file that become records, in document order,
\* and the number of entries the filter drops (`filtered += 1`).
Indexes(es) == [i \in 1..Len(es) |-> i]
RECURSIVE Ascending(_)
Ascending(S) ==
  IF S = {} THEN <<>>
  ELSE LET m == CHOOSE x \in S : \A y \in S : x <= y
       IN <<m>> \o Ascending(S \ {m})
BatchOriginKept(f) ==
  Ascending({i \in 1..Len(f.entries) : BatchOriginKeeps(f.entries[i])})
BatchOriginFiltered(f) ==
  Cardinality({i \in 1..Len(f.entries) :
                 BatchOriginReaches(f.entries[i]) /\ ~BatchOriginKeeps(f.entries[i])})
OriginKept(f) ==
  Ascending({i \in 1..Len(f.entries) : OriginKeeps(f.entries[i])})
OriginFiltered(f) ==
  Cardinality({i \in 1..Len(f.entries) :
                 OriginReaches(f.entries[i]) /\ ~OriginKeeps(f.entries[i])})
MonthlyKept(f) ==
  Ascending({i \in 1..Len(f.entries) : MonthlyKeeps(f.entries[i])})

\* The buffer is flushed when it holds batch_size records, and once more at
\* the end of the file when it is not empty.
RECURSIVE Chunks(_, _)
Chunks(recs, n) ==
  IF Len(recs) = 0 THEN <<>>
  ELSE IF Len(recs) <= n THEN <<recs>>
  ELSE <<SubSeq(recs, 1, n)>> \o Chunks(SubSeq(recs, n + 1, Len(recs)), n)

(***************************************************************************)
(* The tables the loaders create (CREATE TABLE IF NOT EXISTS), with the    *)
(* columns the sample sources fill, and the engine's INSERT.               *)
(***************************************************************************)
StatColumns ==
  {"industry", "weight", "quantity", "sum_of_usd", "weight_avg_price",
   "quantity_avg_price", "trade_count", "amount_share_pct"}
OriginKey ==
  {"hs_code", "year", "month", "origin_country_code", "destination_country_code"}
MonthlyKey == {"hs_code", "year", "month", "country_code"}
FlowKey == {"year_month", "exporter_name", "importer_name"}

LoaderTables ==
  {"country_origin_trade_stats", "country_monthly_trade_stats",
   "shipments_raw", "monthly_company_flows", "hs_code_categories"}

Schema(t) ==
  CASE t = "country_origin_trade_stats" ->
         [cols |-> {"id"} \cup OriginKey \cup StatColumns
                     \cup {"created_at", "updated_at"},
          notnull |-> {"id"} \cup OriginKey,
          varchar3 |-> {"origin_country_code", "destination_country_code"},
          unique |-> {{"id"}, OriginKey}]
    [] t = "country_monthly_trade_stats" ->
         [cols |-> {"id"} \cup MonthlyKey \cup StatColumns
                     \cup {"created_at", "updated_at"},
          notnull |-> {"id"} \cup MonthlyKey,
          varchar3 |-> {"country_code"},
          unique |-> {{"id"}, MonthlyKey}]
    [] t = "shipments_raw" ->
         [cols |-> {"date", "hs_code", "total_value_usd", "created_at"},
          notnull |-> {}, varchar3 |-> {}, unique |-> {}]
    [] t = "monthly_company_flows" ->
         [cols |-> FlowKey \cup {"transaction_count", "total_value_usd",
                                 "created_at"},
          notnull |-> FlowKey \cup {"transaction_count", "total_value_usd"},
          varchar3 |-> {}, unique |-> {FlowKey}]
    [] t = "hs_code_categories" ->
         [cols |-> {"hs_code", "chapter_name", "created_at", "updated_at"},
          notnull |-> {"hs_code", "chapter_name"},
          varchar3 |-> {}, unique |-> {{"hs_code"}}]

KeyOf(r, keyCols) == [c \in keyCols |-> r[c]]

\* The row an INSERT of rec builds: columns the statement does not name take
\* their default (CURRENT_TIMESTAMP for the two timestamps, NULL otherwise).
NewRow(t, rec, now) ==
  [c \in Schema(t).cols |->
     IF c \in DOMAIN rec THEN rec[c]
     ELSE IF c \in {"created_at", "updated_at"} THEN Some(now)
     ELSE None]

\* Rows the engine refuses: a column the table lacks, NULL in a NOT NULL
\* column, a value longer than VARCHAR(3).
Rejects(t, rec) ==
  \/ ~(DOMAIN rec \subseteq Schema(t).cols)
  \/ \E c \in Schema(t).notnull : c \notin DOMAIN rec \/ rec[c] = None
  \/ \E c \in Schema(t).varchar3 \cap DOMAIN rec :
       rec[c] # None /\ StrLen(rec[c][1]) > 3

\* DO UPDATE SET col = EXCLUDED.col, .. [, updated_at = CURRENT_TIMESTAMP]
Updated(row, rec, stmt, now) ==
  [c \in DOMAIN row |->
     IF c \in stmt.set THEN rec[c]
     ELSE IF c = "updated_at" /\ stmt.stamp THEN Some(now)
     ELSE row[c]]

\* One VALUES row of INSERT [.. ON CONFLICT (stmt.conflict) DO UPDATE].
\* st = [ok, rows, touched]; touched: the rows this statement has inserted
\* or updated; ok turns FALSE at the row that raises.
ExecuteRow(st, rec, stmt, now) ==
  LET rows == st.rows
      new == NewRow(stmt.table, rec, now)
      hit == IF stmt.conflict = None THEN {}
             ELSE {i \in 1..Len(rows) :
                     KeyOf(rows[i], stmt.conflict[1]) = KeyOf(new, stmt.conflict[1])}
      clash == \E u \in Schema(stmt.table).unique : \E i \in 1..Len(rows) :
                 KeyOf(rows[i], u) = KeyOf(new, u)
  IN IF Rejects(stmt.table, rec) THEN [st EXCEPT !.ok = FALSE]
     ELSE IF hit = {} THEN
       IF clash THEN [st EXCEPT !.ok = FALSE]
       ELSE [st EXCEPT !.rows = Append(rows, new),
                       !.touched = @ \cup {Len(rows) + 1}]
     ELSE
       LET i == CHOOSE j \in hit : TRUE IN
       IF i \in st.touched THEN [st EXCEPT !.ok = FALSE]
       ELSE [st EXCEPT !.rows[i] = Updated(rows[i], rec, stmt, now),
                       !.touched = @ \cup {i}]

\* The VALUES rows of one statement, applied in order up to the first row
\* that raises.  (The state of a fold is bound, x \in {e}, so that it is
\* computed once.)
RECURSIVE ExecuteFrom(_, _, _, _)
ExecuteFrom(st, batch, stmt, now) ==
  IF batch = <<>> \/ ~st.ok THEN st
  ELSE CHOOSE r \in {ExecuteFrom(s, Tail(batch), stmt, now) :
                       s \in {ExecuteRow(st, Head(batch), stmt, now)}} : TRUE

Execute(rows, batch, stmt, now) ==
  CHOOSE r \in {ExecuteFrom(s, batch, stmt, now) :
                  s \in {[ok |-> TRUE, rows |-> rows, touched |-> {}]}} : TRUE

\* Variant: a statement that raises keeps the rows it applied before the error.
Statement_Partial(rows, batch, stmt, now) ==
  CHOOSE r \in {[ok |-> x.ok, rows |-> x.rows] :
                  x \in {Execute(rows, batch, stmt, now)}} : TRUE

\* with engine.begin() as conn: conn.execute(text(sql), all_params)
\* One statement in its own transaction: applied whole, or rolled back.
Statement(rows, batch, stmt, now) ==
  CHOOSE r \in {[ok |-> x.ok, rows |-> IF x.ok THEN x.rows ELSE rows] :
                  x \in {Execute(rows, batch, stmt, now)}} : TRUE

\* try: conn.execute(text(sql_single), record); imported += 1
\* except: continue  -- inside one transaction; acc.failed: a statement of
\* the transaction has raised.
SingleRow(acc, rec, stmt, now) ==
  IF acc.failed THEN acc
  ELSE CHOOSE r \in {[rows |-> x.rows,
                      imported |-> acc.imported + (IF x.ok THEN 1 ELSE 0),
                      failed |-> ~x.ok] :
                       x \in {Statement(acc.rows, <<rec>>, stmt, now)}} : TRUE

RECURSIVE SingleRows(_, _, _, _)
SingleRows(acc, batch, stmt, now) ==
  IF batch = <<>> THEN acc
  ELSE CHOOSE r \in {SingleRows(a, Tail(batch), stmt, now) :
                       a \in {SingleRow(acc, Head(batch), stmt, now)}} : TRUE

\* with engine.begin() as conn: for record in batch: ..  The transaction of
\* single-row statements, committed at the end of the block: the commit of a
\* failed transaction rolls back.
SingleRowTransaction(rows, batch, stmt, now) ==
  CHOOSE r \in {[ok |-> ~acc.failed, imported |-> acc.imported,
                 rows |-> IF acc.failed THEN rows ELSE acc.rows] :
                  acc \in {SingleRows([rows |-> rows, imported |-> 0,
                                       failed |-> FALSE], batch, stmt, now)}} : TRUE

\* The upsert statements of the scripts.
BatchOriginUpsert ==
  [table |-> "country_origin_trade_stats", conflict |-> Some(OriginKey),
   set |-> StatColumns, stamp |-> TRUE]
BatchMonthlyUpsert ==
  [table |-> "country_monthly_trade_stats", conflict |-> Some(MonthlyKey),
   set |-> StatColumns, stamp |-> TRUE]
OriginUpsert ==
  [table |-> "country_origin_trade_stats", conflict |-> Some(OriginKey),
   set |-> StatColumns \ {"industry"}, stamp |-> TRUE]
MonthlyUpsert ==
  [table |-> "country_monthly_trade_stats", conflict |-> Some(MonthlyKey),
   set |-> StatColumns, stamp |-> TRUE]

\* The batches of one file, one transaction each.  st = [rows, clock,
\* imported, raised, trace]; trace: per transaction its kind, its records,
\* whether it committed, and the table before and after it.  onfail: what the
\* caller of a failed batch statement does: "raise" (batch_import_all: the
\* exception leaves the script), "skip" (import_country_origin._batch_insert
\* returns 0), "single" (import_country_trade_stats._batch_insert retries
\* the batch row by row).
BatchStep(st, batch, stmt, onfail) ==
  LET now == st.clock + 1 IN
  CHOOSE r \in
    {IF tx.ok \/ onfail # "single"
     THEN [rows |-> tx.rows, clock |-> now,
           imported |-> st.imported + (IF tx.ok THEN Len(batch) ELSE 0),
           raised |-> ~tx.ok /\ onfail = "raise",
           trace |-> Append(st.trace,
                            [kind |-> "batch", batch |-> batch, ok |-> tx.ok,
                             at |-> now, before |-> st.rows, after |-> tx.rows])]
     ELSE CHOOSE q \in
       {[rows |-> retry.rows, clock |-> now + 1,
         imported |-> st.imported + retry.imported,
         raised |-> FALSE,
         trace |-> st.trace \o
                   <<[kind |-> "batch", batch |-> batch, ok |-> FALSE,
                      at |-> now, before |-> st.rows, after |-> tx.rows],
                     [kind |-> "single", batch |-> batch, ok |-> retry.ok,
                      at |-> now + 1, before |-> tx.rows, after |-> retry.rows]>>] :
          retry \in {SingleRowTransaction(tx.rows, batch, stmt, now + 1)}} : TRUE :
       tx \in {Statement(st.rows, batch, stmt, now)}} : TRUE

RECURSIVE RunBatches(_, _, _, _)
RunBatches(st, batches, stmt, onfail) ==
  IF batches = <<>> \/ st.raised THEN st
  ELSE CHOOSE r \in {RunBatches(s, Tail(batches), stmt, onfail) :
                       s \in {BatchStep(st, Head(batches), stmt, onfail)}} : TRUE

\* The outcome of a run: the store after it and what the run reports.
Outcome(d, t, st, kept, filtered) ==
  [db |-> [d EXCEPT !.tables[t] = st.rows, !.clock = st.clock, !.runs = @ + 1],
   resp |-> [imported |-> st.imported, filtered |-> filtered,
             raised |-> st.raised, kept |-> kept, trace |-> st.trace]]

\* A file the loader skips (its name has too few parts).
Skipped(d) ==
  [db |-> [d EXCEPT !.runs = @ + 1],
   resp |-> [imported |-> 0, filtered |-> 0, raised |-> FALSE,
             kept |-> <<>>, trace |-> <<>>]]

\* int(parts[1]) raises ValueError, which no loader catches.
Crashed(d) ==
  [db |-> [d EXCEPT !.runs = @ + 1],
   resp |-> [imported |-> 0, filtered |-> 0, raised |-> TRUE,
             kept |-> <<>>, trace |-> <<>>]]

StartOf(d, t) ==
  [rows |-> d.tables[t], clock |-> d.clock, imported |-> 0, raised |-> FALSE,
   trace |-> <<>>]

\* The nested loaders over one file; industry: the value they write.
LoadOrigin(d, f, industry, kept, filtered, batch_size, stmt, onfail) ==
  LET parts == Split(f.stem, "_")
      t == "country_origin_trade_stats"
      recs == [i \in 1..Len(kept) |->
                 OriginStatRecord(parts[1], IntOf(parts[2]), IntOf(parts[3]),
                                  industry, f.entries[kept[i]])]
  IN IF Len(parts) < 3 THEN Skipped(d)
     ELSE IF ~IntParses(parts[2]) \/ ~IntParses(parts[3]) THEN Crashed(d)
     ELSE CHOOSE r \in {Outcome(d, t, st, kept, filtered) :
                           st \in {RunBatches(StartOf(d, t), Chunks(recs, batch_size),
                                              stmt, onfail)}} : TRUE

\* The flat loaders over one file.
LoadMonthly(d, f, industry, batch_size, stmt, onfail) ==
  LET parts == Split(f.stem, "_")
      t == "country_monthly_trade_stats"
      kept == MonthlyKept(f)
      recs == [i \in 1..Len(kept) |->
                 MonthlyStatRecord(parts[1], IntOf(parts[2]), industry,
                                   f.entries[kept[i]])]
  IN IF Len(parts) < 2 THEN Skipped(d)
     ELSE IF ~IntParses(parts[2]) THEN Crashed(d)
     ELSE CHOOSE r \in {Outcome(d, t, st, kept, 0) :
                           st \in {RunBatches(StartOf(d, t), Chunks(recs, batch_size),
                                              stmt, onfail)}} : TRUE

\* batch_import_all.import_country_origin_data
import_country_origin_data(d, f) ==
  LoadOrigin(d, f, "SemiConductor", BatchOriginKept(f), BatchOriginFiltered(f),
             BATCH_SIZE, BatchOriginUpsert, "raise")

\* batch_import_all.import_monthly_data
import_monthly_data(d, f) ==
  LoadMonthly(d, f, "SemiConductor", BATCH_SIZE, BatchMonthlyUpsert, "raise")

\* import_country_origin.import_json_file
\* industry = json_path.parent.parent.name if json_path.parent.parent.name
\*            else 'SemiConductor'
origin_import_json_file(d, f, batch_size) ==
  LoadOrigin(d, f, IF f.industry_dir # "" THEN f.industry_dir ELSE "SemiConductor",
             OriginKept(f), OriginFiltered(f), batch_size, OriginUpsert, "skip")

\* import_country_trade_stats.import_json_file
monthly_import_json_file(d, f, batch_size) ==
  LoadMonthly(d, f, f.industry_dir, batch_size, MonthlyUpsert, "single")

(***************************************************************************)
(* import_processed_tables.import_table_from_csv                           *)
(***************************************************************************)
\* f.lower().replace(' ', '_') on the sample headers the mapping lacks.
LowerSnake(f) == IF f = "Batch No" THEN "batch_no" ELSE f

csv_to_db_mapping(f) ==
  CASE f = "Date" -> "date"
    [] f = "HS Code" -> "hs_code"
    [] f = "Total Value (USD)" -> "total_value_usd"
    [] OTHER -> LowerSnake(f)

\* A row of csv.DictReader: header -> text.
CsvRow(headers, values) ==
  [h \in Range(headers) |-> values[CHOOSE i \in 1..Len(headers) : headers[i] = h]]
CsvFile(t, headers, valueRows) ==
  [table_name |-> t, fieldnames |-> headers,
   rows |-> [i \in 1..Len(valueRows) |-> CsvRow(headers, valueRows[i])]]

RawHeaders == <<"Date", "HS Code", "Total Value (USD)">>
FlowHeaders ==
  <<"year_month", "exporter_name", "importer_name", "transaction_count",
    "total_value_usd">>
ChapterHeaders == <<"hs_code", "chapter_name">>

CsvFiles ==
  {CsvFile("shipments_raw", RawHeaders, <<<<"2023-06-01", "854231", "100">>>>),
   CsvFile("shipments_raw", RawHeaders,
           <<<<"2023-06-01", "854231", "100">>, <<"2023-06-02", "", "50">>>>),
   CsvFile("shipments_raw", <<"Date", "Batch No">>, <<<<"2023-06-01", "7">>>>),
   CsvFile("shipments_raw", RawHeaders, <<>>),
   CsvFile("monthly_company_flows", FlowHeaders,
           <<<<"2023-06", "ACME", "Globex", "3", "100">>>>),
   CsvFile("monthly_company_flows", FlowHeaders,
           <<<<"2023-06", "ACME", "Globex", "5", "200">>,
             <<"2023-07", "ACME", "Globex", "1", "10">>>>),
   CsvFile("monthly_company_flows", FlowHeaders,
           <<<<"2023-07", "ACME", "Globex", "2", "20">>,
             <<"2023-06", "ACME", "Initech", "", "10">>>>),
   CsvFile("hs_code_categories", ChapterHeaders, <<<<"85", "Electrical">>>>),
   CsvFile("hs_code_categories", ChapterHeaders,
           <<<<"85", "Electrical machinery">>, <<"99", "Special">>>>),
   CsvFile("hs_code_categories", ChapterHeaders,
           <<<<"84", "Machinery">>, <<"85", "">>>>)}

\* db_fieldnames
DbFieldnames(table_name, csv_fieldnames) ==
  IF table_name = "shipments_raw"
  THEN [i \in 1..Len(csv_fieldnames) |-> csv_to_db_mapping(csv_fieldnames[i])]
  ELSE csv_fieldnames

\* values: {db_fieldname: (row.get(csv_fieldname, '') or None)}
CsvValues(table_name, csv_fieldnames, row) ==
  LET names == DbFieldnames(table_name, csv_fieldnames) IN
  [c \in Range(names) |->
     LET v == row[csv_fieldnames[CHOOSE i \in 1..Len(names) : names[i] = c]]
     IN IF v = "" THEN None ELSE Some(v)]

\* The statement the function builds for a table.
CsvStatement(table_name, csv_fieldnames) ==
  LET names == DbFieldnames(table_name, csv_fieldnames) IN
  IF table_name = "monthly_company_flows"
  THEN [table |-> table_name, conflict |-> Some(FlowKey),
        set |-> Range(names) \ {"created_at"}, stamp |-> FALSE]
  ELSE IF table_name \in {"hs_code_categories", "country_locations"}
  THEN [table |-> table_name, conflict |-> Some({names[1]}),
        set |-> Range(names) \ {"created_at", names[1]}, stamp |-> TRUE]
  ELSE [table |-> table_name, conflict |-> None, set |-> {}, stamp |-> FALSE]

import_table_from_csv(d, csv) ==
  LET t == csv.table_name
      recs == [i \in 1..Len(csv.rows) |-> CsvValues(t, csv.fieldnames, csv.rows[i])]
      now == d.clock + 1
  IN IF csv.rows = <<>> THEN Skipped(d)
     ELSE CHOOSE r \in
       {Outcome(d, t,
                [rows |-> tx.rows, clock |-> now, imported |-> tx.imported,
                 raised |-> FALSE,
                 trace |-> <<[kind |-> "single", batch |-> recs, ok |-> tx.ok,
                              at |-> now, before |-> d.tables[t],
                              after |-> tx.rows]>>],
                Indexes(csv.rows), 0) :
          tx \in {SingleRowTransaction(d.tables[t], recs,
                                       CsvStatement(t, csv.fieldnames), now)}} : TRUE

(***************************************************************************)
(* The loader runs.                                                        *)
(***************************************************************************)
EmptyStore ==
  [tables |-> [t \in LoaderTables |-> <<>>], clock |-> 0, runs |-> 0]

LoaderRun(loader, t, f, n) ==
  [endpoint |-> "loader", loader |-> loader, table |-> t, file |-> f,
   batch_size |-> n]

ImportCountryOriginData ==
  /\ db.runs < MaxRuns
  /\ \E f \in OriginFiles :
       \E out \in {import_country_origin_data(db, f)} :
       /\ req' = LoaderRun("batch_import_all.import_country_origin_data",
                           "country_origin_trade_stats", f, BATCH_SIZE)
       /\ db' = out.db
       /\ resp' = out.resp

ImportMonthlyData ==
  /\ db.runs < MaxRuns
  /\ \E f \in MonthlyFiles :
       \E out \in {import_monthly_data(db, f)} :
       /\ req' = LoaderRun("batch_import_all.import_monthly_data",
                           "country_monthly_trade_stats", f, BATCH_SIZE)
       /\ db' = out.db
       /\ resp' = out.resp

ImportOriginJsonFile ==
  /\ db.runs < MaxRuns
  /\ \E f \in OriginFiles, n \in BatchSizeInputs :
       \E out \in {origin_import_json_file(db, f, n)} :
       /\ req' = LoaderRun("import_country_origin.import_json_file",
                           "country_origin_trade_stats", f, n)
       /\ db' = out.db
       /\ resp' = out.resp

ImportMonthlyJsonFile ==
  /\ db.runs < MaxRuns
  /\ \E f \in MonthlyFiles, n \in BatchSizeInputs :
       \E out \in {monthly_import_json_file(db, f, n)} :
       /\ req' = LoaderRun("import_country_trade_stats.import_json_file",
                           "country_monthly_trade_stats", f, n)
       /\ db' = out.db
       /\ resp' = out.resp

ImportTableFromCsv ==
  /\ db.runs < MaxRuns
  /\ \E csv \in CsvFiles :
       \E out \in {import_table_from_csv(db, csv)} :
       /\ req' = LoaderRun("import_processed_tables.import_table_from_csv",
                           csv.table_name, csv, 1)
       /\ db' = out.db
       /\ resp' = out.resp

InitLoad ==
  /\ db = EmptyStore
  /\ req = NoReq
  /\ resp = NoResp

NextLoad ==
  \/ ImportCountryOriginData
  \/ ImportMonthlyData
  \/ ImportOriginJsonFile
  \/ ImportMonthlyJsonFile
  \/ ImportTableFromCsv

\* Loader runs, one after the other, against a store that starts empty.
SpecLoad == InitLoad /\ [][NextLoad]_vars

(***************************************************************************)
(* Claims about the loaders.                                               *)
(***************************************************************************)
Loaded == req.endpoint = "loader"

\* A row without its updated_at column.
Forget(row) == [c \in DOMAIN row \ {"updated_at"} |-> row[c]]
SameTable(a, b) ==
  Len(a) = Len(b) /\ \A i \in 1..Len(a) : Forget(a[i]) = Forget(b[i])

\* The step is a run of the loader and source file of the run before it.
Reload == Loaded /\ req' = req /\ db'.runs = db.runs + 1

\* C11: a second run of a loader on its unchanged source raises no error and
\* leaves the table with the same row count and the same value in every
\* column other than updated_at as the first run did, for every loader table.
C11_ReloadIsIdempotent ==
  [][Reload => /\ ~resp'.raised
               /\ SameTable(db.tables[req.table], db'.tables[req.table])]_vars

NaturalKey(t) ==
  IF t = "country_origin_trade_stats" THEN OriginKey ELSE MonthlyKey
FactTables == {"country_origin_trade_stats", "country_monthly_trade_stats"}

\* The stored rows a committed batch statement e found under the key of one
\* of its records, as pairs <<row index, record index>>.
Conflicts(e, t) ==
  {p \in (1..Len(e.before)) \X (1..Len(e.batch)) :
     KeyOf(e.before[p[1]], NaturalKey(t)) = KeyOf(e.batch[p[2]], NaturalKey(t))}

\* C12: when an incoming fact record conflicts with a stored row on the
\* natural key, after the upsert every non-key column of the stored row
\* equals the incoming value and updated_at is the time of the statement,
\* for the upsert statement of every loader.
C12_ConflictOverwritesEveryColumn ==
  Loaded /\ req.table \in FactTables =>
    \A k \in 1..Len(resp.trace) :
      LET e == resp.trace[k] IN
      e.kind = "batch" /\ e.ok =>
        \A p \in Conflicts(e, req.table) :
          /\ \A c \in StatColumns : e.after[p[1]][c] = e.batch[p[2]][c]
          /\ e.after[p[1]].updated_at = Some(e.at)

FlatLoaders ==
  {"batch_import_all.import_monthly_data",
   "import_country_trade_stats.import_json_file"}

\* The run is one of a flat loader over a file it has read.
FlatRead == Loaded /\ req.loader \in FlatLoaders /\ Len(Split(req.file.stem, "_")) >= 2

\* C13: the flat monthly loaders drop a source record exactly when the
\* nested loader's filter drops a record of that weight, quantity and
\* countryCode: weight = 0 or quantity = 0 or countryCode = "N/A".
C13_FlatFilterIsNestedFilter ==
  FlatRead =>
    \A i \in 1..Len(req.file.entries) :
      MonthlyReaches(req.file.entries[i]) =>
        (i \notin Range(resp.kept) <=> should_filter_record(req.file.entries[i].stat))

\* C14: a multi-row batch upsert statement that fails leaves the table as it
\* was before the statement: none of its rows is inserted or updated, and
\* the rows earlier batches committed are unchanged.
C14_FailedBatchLeavesTableUnchanged ==
  Loaded =>
    \A k \in 1..Len(resp.trace) :
      resp.trace[k].kind = "batch" /\ ~resp.trace[k].ok =>
        resp.trace[k].after = resp.trace[k].before

\* A batch of two records fails at its second record, after an earlier batch
\* of the run has committed rows.
C14_Witness ==
  /\ Loaded
  /\ \E k \in 2..Len(resp.trace) :
       /\ resp.trace[k].kind = "batch" /\ ~resp.trace[k].ok
       /\ Len(resp.trace[k].batch) = 2
       /\ ~Rejects(req.table, resp.trace[k].batch[1])
       /\ resp.trace[k - 1].ok
       /\ Len(resp.trace[k].before) > 0

(***************************************************************************)
(* main.py: the CORS configuration and the three exception handlers.       *)
(*                                                                         *)
(* An Origin value is a sequence of pieces, each a run of characters: the  *)
(* scheme and project name, the preview-domain suffix, single characters   *)
(* inside and outside the class [a-z0-9-], and other hosts.                *)
(***************************************************************************)
MaxPieces == 4

ProjectPiece == "https://supply-chain-tracing"
SuffixPiece == ".vercel.app"
LocalOrigin == <<"http://localhost:3000">>
Pieces == {ProjectPiece, SuffixPiece, "-", "a", "A", ".evil.com"} \cup Range(LocalOrigin)

RECURSIVE SeqsUpTo(_, _)
SeqsUpTo(S, n) ==
  IF n = 0 THEN {<<>>}
  ELSE LET shorter == SeqsUpTo(S, n - 1) IN
       shorter \cup {Append(s, x) : s \in {t \in shorter : Len(t) = n - 1}, x \in S}

OriginInputs == Opt(SeqsUpTo(Pieces, MaxPieces))

\* cors_origins: the environment's list after split(",") and strip().
CorsConfigs == {<<>>, <<LocalOrigin>>}

\* [a-z0-9-]
InClass(piece) == piece \in {"-", "a"}

\* The whole of s is https://supply-chain-tracing(-[a-z0-9-]+)?\.vercel\.app
ReFullMatch(s) ==
  /\ Len(s) >= 2
  /\ s[1] = ProjectPiece
  /\ s[Len(s)] = SuffixPiece
  /\ \/ Len(s) = 2
     \/ /\ Len(s) >= 4
        /\ s[2] = "-"
        /\ \A i \in 3..(Len(s) - 1) : InClass(s[i])

\* re.match(vercel_origin_regex, origin): the pattern matches at the start
\* of the string, whatever follows the match.
ReMatch(s) == \E n \in 0..Len(s) : ReFullMatch(SubSeq(s, 1, n))

\* is_allowed, as each handler computes it.
IsAllowed(origin, cors_origins) ==
  /\ origin # None /\ origin[1] # <<>>
  /\ (origin[1] \in Range(cors_origins) \/ ReMatch(origin[1]))

\* The headers a handler adds: `if is_allowed and origin:`.
CorsHeaders(origin, cors_origins) ==
  IF IsAllowed(origin, cors_origins)
  THEN [allow_origin |-> origin, allow_credentials |-> Some("true"),
        allow_methods |-> Some("*"), allow_headers |-> Some("*")]
  ELSE [allow_origin |-> None, allow_credentials |-> None,
        allow_methods |-> None, allow_headers |-> None]

HttpExceptions ==
  {[status_code |-> 404, detail |-> <<"Location not found">>],
   [status_code |-> 500, detail |-> ConnectionError.msg],
   [status_code |-> 500, detail |-> UndefinedTableError.msg]}
ValidationErrors == {<<"missing">>, <<"int_parsing">>}
Exceptions == {ConnectionError, ValueError}

http_exception_handler(origin, exc, cors_origins) ==
  [headers |-> CorsHeaders(origin, cors_origins)]
    @@ HttpError(exc.status_code, [msg |-> exc.detail])

validation_exception_handler(origin, errors, cors_origins) ==
  [headers |-> CorsHeaders(origin, cors_origins)]
    @@ HttpError(422, [msg |-> errors])

general_exception_handler(origin, exc, cors_origins) ==
  [headers |-> CorsHeaders(origin, cors_origins)] @@ InternalError(exc)

Failure(handler, origin, exc) ==
  [endpoint |-> "error_handler", handler |-> handler, origin |-> origin,
   exc |-> exc]

HttpExceptionHandler ==
  /\ req = NoReq
  /\ \E origin \in OriginInputs, exc \in HttpExceptions :
       /\ req' = Failure("http_exception_handler", origin, exc)
       /\ resp' = http_exception_handler(origin, exc, db.cors_origins)
  /\ UNCHANGED db

ValidationExceptionHandler ==
  /\ req = NoReq
  /\ \E origin \in OriginInputs, errors \in ValidationErrors :
       /\ req' = Failure("validation_exception_handler", origin, errors)
       /\ resp' = validation_exception_handler(origin, errors, db.cors_origins)
  /\ UNCHANGED db

GeneralExceptionHandler ==
  /\ req = NoReq
  /\ \E origin \in OriginInputs, exc \in Exceptions :
       /\ req' = Failure("general_exception_handler", origin, exc)
       /\ resp' = general_exception_handler(origin, exc, db.cors_origins)
  /\ UNCHANGED db

InitHandlers ==
  /\ db \in {[cors_origins |-> c] : c \in CorsConfigs}
  /\ req = NoReq
  /\ resp = NoResp

NextHandlers ==
  \/ HttpExceptionHandler
  \/ ValidationExceptionHandler
  \/ GeneralExceptionHandler

\* One failed request, under each configuration of the allowed origins.
SpecHandlers == InitHandlers /\ [][NextHandlers]_vars

(***************************************************************************)
(* Claims about the error responses.                                       *)
(***************************************************************************)
Failed == req.endpoint = "error_handler"

\* The decision of the CORS middleware: an exact member of the configured
\* list, or a full match of the preview-domain pattern.
MiddlewareAllows(origin, cors_origins) ==
  origin # None /\ (origin[1] \in Range(cors_origins) \/ ReFullMatch(origin[1]))

\* C15: each of the three error handlers attaches Access-Control-Allow-Origin
\* exactly when the CORS middleware would allow the request's Origin; an
\* origin the middleware rejects receives no CORS header on an error response.
C15_ErrorHandlersFollowMiddleware ==
  Failed =>
    (resp.headers.allow_origin # None
       <=> MiddlewareAllows(req.origin, db.cors_origins))

\* C16: the body of a 5xx response does not depend on the internal error:
\* the same request failing with a different exception receives the same
\* body.
C16_ServerErrorBodyIsGeneric ==
  /\ Served
  /\ req.endpoint \in {"get_monthly_company_flows", "get_transactions"}
  /\ resp.status >= 500
  => \A d \in Deployments : \A r \in Handle(d, req.endpoint, req.params) :
       r.status >= 500 => r.body = resp.body

(***************************************************************************)
(* routes/locations.py and routes/companies.py: the ORM tables locations   *)
(* and companies, and the lookups that resolve a location.                 *)
(*                                                                         *)
(* In a location store db.locations and db.companies are the sets of rows  *)
(* of the two tables (id is the primary key of each).                      *)
(***************************************************************************)
MaxLocations == 3
MaxCompanies == 2

\* models.Location; type is 'country' or 'city' (check_location_type), city
\* is nullable.
LocationRow(id, type, cc, city, lat, region) ==
  [id |-> id, type |-> type, country_code |-> cc, city |-> city,
   latitude |-> lat, longitude |-> lat + 100, region |-> region,
   continent |-> Some("Asia")]

LocationUniverse ==
  {LocationRow("cn_shenzhen", "city", "CN", Some("Shenzhen"), 22, Some("Guangdong")),
   LocationRow("cn_shenzhen_2", "city", "CN", Some("Shenzhen"), 23, None),
   LocationRow("cn_shanghai", "city", "CN", Some("Shanghai"), 31, None),
   LocationRow("cn", "country", "CN", None, 35, None),
   LocationRow("cn_capital", "country", "CN", Some("Beijing"), 39, None),
   LocationRow("jp", "country", "JP", None, 36, None)}

\* models.Company; city is NOT NULL.
CompanyRow(id, name, cc, city, type) ==
  [id |-> id, name |-> name, country_code |-> cc, country_name |-> cc,
   city |-> city, type |-> type, industry |-> None, website |-> None]

CompanyUniverse ==
  {CompanyRow("c1", "Acme", "CN", "Shenzhen", "exporter"),
   CompanyRow("c2", "Bolt", "CN", "Beijing", "importer"),
   CompanyRow("c3", "Core", "JP", "Shenzhen", "importer"),
   CompanyRow("c4", "Dyne", "DE", "Shanghai", "both")}

\* Text order of the sample company names.
CompanyNameRank(n) ==
  CASE n = "Acme" -> 1 [] n = "Bolt" -> 2 [] n = "Core" -> 3 [] OTHER -> 4

LocationCountryInputs == {"CN", "JP", "DE"}
LocationCityInputs == {"Shenzhen", "Shanghai", "Beijing"}
CompanyWithLocationIdInputs == {"c1", "c2", "c3", "c4"}
CompaniesParams ==
  [country_code : Opt({"CN", ""}), city : Opt({"Shenzhen"}),
   type : Opt({"importer"})]

\* Query.first(): None on an empty result, otherwise one row of it; without
\* ORDER BY the engine returns any of the rows.
First(rows) == IF rows = {} THEN {None} ELSE {Some(r) : r \in rows}

\* Variant: the city lookup does not compare the city.
CityLocations_AnyCity(d, country_code, city) ==
  {l \in d.locations : l.country_code = country_code /\ l.type = "city"}

\* filter(country_code == .., city == .., type == 'city')
CityLocations(d, country_code, city) ==
  {l \in d.locations :
     l.country_code = country_code /\ l.city = Some(city) /\ l.type = "city"}

\* filter(country_code == .., type == 'country')
CountryLocations(d, country_code) ==
  {l \in d.locations : l.country_code = country_code /\ l.type = "country"}

LocationResponse(l) == [status |-> 200, kind |-> "location", body |-> <<l>>]

\* GET /api/locations/country/{country_code}/city/{city}
get_city_location(d, country_code, city) ==
  UNION {IF location # None THEN {LocationResponse(location[1])}
         ELSE {IF fallback # None THEN LocationResponse(fallback[1])
               ELSE HttpError(404, [msg |-> <<"Location not found">>]) :
                 fallback \in First(CountryLocations(d, country_code))} :
           location \in First(CityLocations(d, country_code, city))}

\* CompanyWithLocation(...): the company's columns and the coordinates,
\* region and continent of the location.
CompanyWithLocation(company, location) ==
  [id |-> company.id, name |-> company.name,
   country_code |-> company.country_code,
   country_name |-> company.country_name, city |-> company.city,
   type |-> company.type, industry |-> company.industry,
   website |-> company.website, latitude |-> location.latitude,
   longitude |-> location.longitude, region |-> location.region,
   continent |-> location.continent]

\* The two lookups both company handlers make for one company: the city
\* location first, the country location when there is none.
CompanyLocation(d, company) ==
  UNION {IF location # None THEN {location}
         ELSE First(CountryLocations(d, company.country_code)) :
           location \in First(CityLocations(d, company.country_code, company.city))}

\* GET /api/companies/{company_id}/location
get_company_with_location(d, company_id) ==
  UNION {IF company = None
         THEN {HttpError(404, [msg |-> <<"Company not found">>])}
         ELSE {IF location = None
               THEN HttpError(404, [msg |-> <<"Location not found for company">>])
               ELSE [status |-> 200, kind |-> "company",
                     body |-> <<CompanyWithLocation(company[1], location[1])>>] :
                 location \in CompanyLocation(d, company[1])} :
           company \in First({c \in d.companies : c.id = company_id})}

\* order_by(Company.name)
CompanyNameAsc(a, b) == CompanyNameRank(a.name) < CompanyNameRank(b.name)

CompaniesWhere(d, p) ==
  {c \in d.companies :
     /\ TruthyStr(p.country_code) => c.country_code = p.country_code[1]
     /\ TruthyStr(p.city) => c.city = p.city[1]
     /\ TruthyStr(p.type) => c.type = p.type[1]}

\* The loop over the companies: one entry for every company that has a
\* location, in the order of the companies.
RECURSIVE WithLocations(_, _)
WithLocations(d, companies) ==
  IF companies = <<>> THEN {<<>>}
  ELSE {(IF location = None THEN <<>>
         ELSE <<CompanyWithLocation(Head(companies), location[1])>>) \o rest :
          location \in CompanyLocation(d, Head(companies)),
          rest \in WithLocations(d, Tail(companies))}

\* GET /api/companies/with-locations
get_companies_with_locations(d, p) ==
  UNION {{[status |-> 200, kind |-> "list", body |-> result] :
            result \in WithLocations(d, companies)} :
           companies \in SortedSeqs(CompaniesWhere(d, p), CompanyNameAsc)}

GetCityLocation ==
  /\ req = NoReq
  /\ \E country_code \in LocationCountryInputs, city \in LocationCityInputs :
       /\ req' = [endpoint |-> "get_city_location",
                  country_code |-> country_code, city |-> city]
       /\ resp' \in get_city_location(db, country_code, city)
  /\ UNCHANGED db

GetCompanyWithLocation ==
  /\ req = NoReq
  /\ \E company_id \in CompanyWithLocationIdInputs :
       /\ req' = [endpoint |-> "get_company_with_location",
                  company_id |-> company_id]
       /\ resp' \in get_company_with_location(db, company_id)
  /\ UNCHANGED db

GetCompaniesWithLocations ==
  /\ req = NoReq
  /\ \E p \in CompaniesParams :
       /\ req' = [endpoint |-> "get_companies_with_locations", params |-> p]
       /\ resp' \in get_companies_with_locations(db, p)
  /\ UNCHANGED db

InitLocations ==
  /\ db \in {[locations |-> ls, companies |-> cs] :
               ls \in BoundedSubsets(LocationUniverse, MaxLocations),
               cs \in BoundedSubsets(CompanyUniverse, MaxCompanies)}
  /\ req = NoReq
  /\ resp = NoResp

NextLocations ==
  \/ GetCityLocation
  \/ GetCompanyWithLocation
  \/ GetCompaniesWithLocations

\* One lookup against stores that differ in their locations and companies.
SpecLocations == InitLocations /\ [][NextLocations]_vars

(***************************************************************************)
(* Claims about the resolution order.                                      *)
(***************************************************************************)
\* What a CompanyWithLocation entry shows of a location.
Shown(l) ==
  [latitude |-> l.latitude, longitude |-> l.longitude, region |-> l.region,
   continent |-> l.continent]
ShownIn(entry) ==
  [latitude |-> entry.latitude, longitude |-> entry.longitude,
   region |-> entry.region, continent |-> entry.continent]

CityRows(country_code, city) ==
  {l \in db.locations :
     l.type = "city" /\ l.country_code = country_code /\ l.city = Some(city)}
CountryRows(country_code) ==
  {l \in db.locations : l.type = "country" /\ l.country_code = country_code}

\* The locations the fixed order allows for a pair: the city locations of
\* the pair when there is one, otherwise the country locations.
Resolution(country_code, city) ==
  IF CityRows(country_code, city) # {} THEN CityRows(country_code, city)
  ELSE CountryRows(country_code)

CityLocationInOrder ==
  req.endpoint = "get_city_location" =>
    LET allowed == Resolution(req.country_code, req.city) IN
    IF allowed = {} THEN resp.status = 404
    ELSE resp.status = 200 /\ resp.body[1] \in allowed

CompanyLocationInOrder ==
  req.endpoint = "get_company_with_location"
    /\ (\E c \in db.companies : c.id = req.company_id) =>
    LET company == CHOOSE c \in db.companies : c.id = req.company_id
        allowed == Resolution(company.country_code, company.city)
    IN IF allowed = {} THEN resp.status = 404
       ELSE /\ resp.status = 200
            /\ resp.body[1].id = company.id
            /\ ShownIn(resp.body[1]) \in {Shown(l) : l \in allowed}

CompaniesLocationsInOrder ==
  req.endpoint = "get_companies_with_locations" =>
    /\ resp.status = 200
    /\ \A c \in CompaniesWhere(db, req.params) :
         LET allowed == Resolution(c.country_code, c.city)
             entries == {i \in 1..Len(resp.body) : resp.body[i].id = c.id}
         IN IF allowed = {} THEN entries = {}
            ELSE /\ Cardinality(entries) = 1
                 /\ \A i \in entries :
                      ShownIn(resp.body[i]) \in {Shown(l) : l \in allowed}

\* C17: a lookup for (country_code, city) returns a city-type location of
\* the pair whenever one exists, otherwise a country-type location of the
\* country whenever one exists, otherwise not-found (404 from
\* get_city_location and get_company_with_location, no entry in the list of
\* get_companies_with_locations); a country location is never returned
\* while a city location of the pair exists.
C17_CityThenCountryThenNotFound ==
  /\ CityLocationInOrder
  /\ CompanyLocationInOrder
  /\ CompaniesLocationsInOrder

\* A company whose city has no location of its own, in a country that has
\* city locations for other cities, is answered with the country location.
C17_Witness ==
  /\ req.endpoint = "get_company_with_location"
  /\ resp.status = 200
  /\ \E c \in db.companies :
       /\ c.id = req.company_id
       /\ CityRows(c.country_code, c.city) = {}
       /\ \E l \in db.locations : l.type = "city" /\ l.country_code = c.country_code
       /\ ShownIn(resp.body[1]) \in {Shown(l) : l \in CountryRows(c.country_code)}

(***************************************************************************)
(* routes/transactions.py: the pages of get_transactions.                  *)
(***************************************************************************)
MaxPage == 3
MaxPageRows == 4
MaxPageLimit == 1000

\* page: ge=1; limit: ge=1, le=1000.  Requests that differ in the page, the
\* page size and one filter.
PageRequests ==
  {[TransactionDefaults EXCEPT !.page = page, !.limit = limit, !.status = status] :
     page \in 1..MaxPage, limit \in {1, 2, DefaultPageLimit, MaxPageLimit},
     status \in {None, Some(<<"completed">>)}}

GetTransactionsPage ==
  /\ req = NoReq
  /\ \E p \in PageRequests :
       \E r \in get_transactions(db, p) :
         /\ req' = [endpoint |-> "get_transactions", params |-> p]
         /\ resp' = r
  /\ UNCHANGED db

InitPages ==
  /\ db \in {[EmptyDb EXCEPT !.tx = S] : S \in BoundedSubsets(TxUniverse, MaxPageRows)}
  /\ req = NoReq
  /\ resp = NoResp

\* One page request against stores of up to MaxPageRows transactions.
SpecPages == InitPages /\ [][GetTransactionsPage]_vars

(***************************************************************************)
(* Claims about the pages.                                                 *)
(***************************************************************************)
\* The filtered transaction set of the request.
FilteredSet == {t \in db.tx : TransactionsWhere(req.params, t)}

\* The orders of the filtered set by transaction_date descending.
NewestFirst ==
  {o \in [1..Cardinality(FilteredSet) -> FilteredSet] :
     /\ \A i, j \in DOMAIN o : i # j => o[i] # o[j]
     /\ \A i, j \in DOMAIN o :
          i < j => DateLeq(o[j].transaction_date, o[i].transaction_date)}

\* ceil(total / limit): the least number of pages of `limit` rows that hold
\* `total` rows.
PagesFor(total, limit) ==
  CHOOSE k \in 0..total : k * limit >= total /\ \A j \in 0..(k - 1) : j * limit < total

\* C18: get_transactions returns pagination.total = the size of the filtered
\* set, total_pages = ceil(total / limit) (0 when total = 0), at most `limit`
\* transactions, which are the rows at positions (page-1)*limit ..
\* page*limit-1 of the set ordered by transaction_date descending, and an
\* empty list when page > total_pages.
C18_PageIsSliceOfOrderedSet ==
  Served /\ req.endpoint = "get_transactions" /\ resp.status = 200 =>
    LET page == req.params.page
        limit == req.params.limit
        total == Cardinality(FilteredSet)
        body == resp.body[1]
        n == Len(body.transactions)
        first == (page - 1) * limit
    IN /\ body.pagination.total = total
       /\ body.pagination.total_pages = PagesFor(total, limit)
       /\ body.pagination.page = page /\ body.pagination.limit = limit
       /\ n <= limit
       /\ page > body.pagination.total_pages => n = 0
       /\ \E o \in NewestFirst :
            /\ n = Cardinality({i \in 1..total : first < i /\ i <= first + limit})
            /\ \A i \in 1..n : body.transactions[i].id = o[first + i].id

\* The second page of two rows out of three: one row, the oldest.
C18_Witness ==
  /\ Served /\ req.endpoint = "get_transactions" /\ resp.status = 200
  /\ req.params.page = 2 /\ req.params.limit = 2
  /\ resp.body[1].pagination.total = 3
  /\ resp.body[1].pagination.total_pages = 2
  /\ Len(resp.body[1].transactions) = 1

\* A page past the last one of a non-empty set is empty.
C18_WitnessPastEnd ==
  /\ Served /\ req.endpoint = "get_transactions" /\ resp.status = 200
  /\ resp.body[1].pagination.total > 0
  /\ req.params.page > resp.body[1].pagination.total_pages
  /\ resp.body[1].transactions = <<>>

(***************************************************************************)
(* utils/db_helpers.py: is_missing_table_error over a family of errors.    *)
(***************************************************************************)
MaxTokens == 2

\* Tokens of str(error) and of str(error.orig).
MessageTokens ==
  {"UndefinedTable", "UNDEFINEDTABLE", "relation", "Relation",
   "does not exist", "Does Not Exist", "column", "OperationalError"}
OrigMessages ==
  {<<>>, <<"UndefinedTable">>, <<"relation", "does not exist">>,
   <<"server closed the connection unexpectedly">>}
ErrorTypes == {"ProgrammingError", "OperationalError"}

RaisedErrors ==
  [type : ErrorTypes, msg : SeqsUpTo(MessageTokens, MaxTokens), orig : OrigMessages]

IsMissingTableError ==
  /\ req = NoReq
  /\ req' = [endpoint |-> "is_missing_table_error", error |-> db.error]
  /\ resp' = [status |-> 0, kind |-> "bool",
              body |-> <<is_missing_table_error(db.error)>>]
  /\ UNCHANGED db

InitClassify ==
  /\ db \in {[error |-> e] : e \in RaisedErrors}
  /\ req = NoReq
  /\ resp = NoResp

\* One classification of each error of the family.
SpecClassify == InitClassify /\ [][IsMissingTableError]_vars

(***************************************************************************)
(* Claims about the classification.                                        *)
(***************************************************************************)
Classified == req.endpoint = "is_missing_table_error"

\* A token is a marker whatever its case.
Mentions(m, words) == \E i \in 1..Len(m) : m[i] \in words

RelationWords == {"relation", "Relation"}
DoesNotExistWords == {"does not exist", "Does Not Exist"}
UndefinedTableWords == {"undefinedtable", "UndefinedTable", "UNDEFINEDTABLE"}

\* C19: is_missing_table_error returns true exactly when the message
\* contains, in any case, both "relation" and "does not exist", or
\* "undefinedtable", or the error is a ProgrammingError whose driver-level
\* error names an undefined table; in particular it returns false for a
\* message that mentions "relation" without "does not exist".
C19_MissingTableExactly ==
  Classified =>
    (resp.body[1]
       <=> \/ Mentions(req.error.msg, UndefinedTableWords)
           \/ /\ Mentions(req.error.msg, RelationWords)
              /\ Mentions(req.error.msg, DoesNotExistWords)
           \/ /\ req.error.type = "ProgrammingError"
              /\ Mentions(req.error.orig, UndefinedTableWords))

\* A message that mentions "relation" without "does not exist" is
\* classified as not missing.
C19_Witness ==
  /\ Classified
  /\ Mentions(req.error.msg, RelationWords)
  /\ ~Mentions(req.error.msg, DoesNotExistWords)
  /\ resp.body[1] = FALSE

\* A ProgrammingError is classified as missing by its driver-level error
\* alone.
C19_WitnessOrig ==
  /\ Classified
  /\ req.error.msg = <<"column">>
  /\ req.error.type = "ProgrammingError"
  /\ resp.body[1] = TRUE

(***************************************************************************)
(* routes/shipments.py and routes/monthly_company_flows.py, step by step:  *)
(* the try/except around the data query of one request.                    *)
(*                                                                         *)
(* In a guarded request req carries the position of the handler (pc), the  *)
(* number of times the data query was executed, the exception it raised,   *)
(* the rows it fetched and the way the handler ended.                      *)
(***************************************************************************)
MaxGuardFilters == 1

GuardedEndpoints == {"get_shipments", "get_monthly_company_flows"}

GuardRequests(e) ==
  IF e = "get_shipments"
  THEN {p \in ShipmentParams : Supplied(p, ShipmentDefaults) <= MaxGuardFilters}
  ELSE {p \in FlowParams : Supplied(p, FlowDefaults) <= MaxGuardFilters}

Ended(rq, outcome) == [rq EXCEPT !.pc = "done", !.outcome = outcome]

\* The handler is entered.  get_shipments first asks the catalog for its
\* table; get_monthly_company_flows builds its statement and executes it.
GuardReceive ==
  /\ req = NoReq
  /\ \E e \in GuardedEndpoints : \E p \in GuardRequests(e) :
       req' = [endpoint |-> e, params |-> p,
               pc |-> IF e = "get_shipments" THEN "check" ELSE "execute",
               executions |-> 0, error |-> None, class |-> "none",
               rows |-> <<>>, outcome |-> "none"]
  /\ UNCHANGED <<db, resp>>

\* get_shipments, up to the data query: `if not table_exists: return []`;
\* a malformed year-month raises into the outer `except`, which returns [].
GuardCheckTable ==
  /\ req # NoReq /\ req.pc = "check"
  /\ LET table_exists ==
           IF CatalogError(db) # None THEN FALSE
           ELSE "country_origin_trade_stats" \in db.tables
     IN IF ~table_exists \/ YearMonthRaises(req.params)
        THEN req' = Ended(req, "default") /\ resp' = OkList(<<>>)
        ELSE req' = [req EXCEPT !.pc = "execute"] /\ UNCHANGED resp
  /\ UNCHANGED db

\* result = db.execute(text(query), params); rows = result.fetchall()
GuardExecute ==
  /\ req # NoReq /\ req.pc = "execute"
  /\ \E error \in {IF req.endpoint = "get_shipments"
                   THEN ShipmentsExecError(db, req.params)
                   ELSE FlowsExecError(db, req.params)} :
       IF error # None
       THEN req' = [req EXCEPT !.pc = "failed", !.error = error,
                               !.executions = @ + 1]
       ELSE \E s \in (IF req.endpoint = "get_shipments"
                      THEN ShipmentsRows(db, req.params)
                      ELSE SortedSeqs({r \in db.mcf : FlowsWhere(db, req.params, r)},
                                      FlowsOrder)) :
              req' = [req EXCEPT !.pc = "map", !.rows = s, !.executions = @ + 1]
  /\ UNCHANGED <<db, resp>>

\* The loop over the rows, and `return shipments` / `return flows`.
GuardMapRows ==
  /\ req # NoReq /\ req.pc = "map"
  /\ req' = Ended(req, "rows")
  /\ resp' = AsListResponse(OkList(
       [i \in 1..Len(req.rows) |->
          IF req.endpoint = "get_shipments" THEN ShipmentDict(req.rows[i])
          ELSE FlowDict(req.rows[i])]))
  /\ UNCHANGED db

\* get_shipments, `except Exception as query_error:` the test on the text
\* of the error.
GuardClassify ==
  /\ req # NoReq /\ req.pc = "failed" /\ req.endpoint = "get_shipments"
  /\ req' = [req EXCEPT !.pc = "classified",
                        !.class = IF RouteSaysMissing(req.error[1])
                                  THEN "missing" ELSE "other"]
  /\ UNCHANGED <<db, resp>>

\* get_shipments: `return []` in the branch of the test and after it.
GuardReturnEmpty ==
  /\ req # NoReq /\ req.pc = "classified"
  /\ req' = Ended(req, "default")
  /\ resp' = OkList(<<>>)
  /\ UNCHANGED db

\* get_monthly_company_flows, `except Exception as e:` raise
\* HTTPException(status_code=500, ...).
GuardRaise ==
  /\ req # NoReq /\ req.pc = "failed"
  /\ req.endpoint = "get_monthly_company_flows"
  /\ req' = Ended(req, "raise")
  /\ resp' = HttpError(500, req.error[1])
  /\ UNCHANGED db

NextGuard ==
  \/ GuardReceive
  \/ GuardCheckTable
  \/ GuardExecute
  \/ GuardMapRows
  \/ GuardClassify
  \/ GuardReturnEmpty
  \/ GuardRaise

\* One guarded request, step by step, against each deployment.
SpecGuard == InitDeploy /\ [][NextGuard]_vars

(***************************************************************************)
(* Claims about the guard.                                                 *)
(***************************************************************************)
\* C20: in every request the data query is executed at most once; rows are
\* mapped and returned only after a successful execution; a failed
\* execution ends in exactly one outcome, the default when the error is a
\* missing relation and a raised server error otherwise; after a failure
\* the query is not executed again.
C20_GuardStateMachine ==
  req # NoReq =>
    /\ req.executions <= 1
    /\ req.pc = "map" \/ req.outcome = "rows" =>
         req.executions = 1 /\ req.error = None
    /\ req.error # None => req.executions = 1
    /\ req.pc = "done" /\ req.error # None =>
         IF is_missing_table_error(req.error[1])
         THEN req.outcome = "default" /\ resp = OkList(<<>>)
         ELSE req.outcome = "raise" /\ resp.status >= 500

(***************************************************************************)
(* Claims about the numeric columns of get_shipments.                      *)
(***************************************************************************)
\* The stored row a shipment of the response was mapped from.
StoredShipment(s) ==
  CHOOSE r \in db.cots :
    /\ r.hs_code = s.hs_code /\ r.year = s.year /\ r.month = s.month
    /\ r.origin_country_code = s.origin_country_code
    /\ r.destination_country_code = s.destination_country_code

\* Stored numeric column and the response field it is mapped to.
NumericFields ==
  {<<"weight", "weight">>, <<"quantity", "quantity">>,
   <<"sum_of_usd", "total_value_usd">>,
   <<"weight_avg_price", "weight_avg_price">>,
   <<"quantity_avg_price", "quantity_avg_price">>,
   <<"amount_share_pct", "amount_share_pct">>}

\* C22: in get_shipments every non-NULL stored value v of a numeric column
\* is mapped to the same number v, v = 0 included, and only a NULL stored
\* value is mapped to None.
C22_NumbersSurviveMapping ==
  Served /\ req.endpoint = "get_shipments" /\ resp.status = 200 =>
    \A i \in 1..Len(resp.body) :
      LET s == resp.body[i]
          r == StoredShipment(s)
      IN /\ \A f \in NumericFields :
              /\ r[f[1]] # None => s[f[2]] = r[f[1]]
              /\ s[f[2]] = None => r[f[1]] = None
         /\ r.trade_count # None => s.trade_count = r.trade_count[1]

(***************************************************************************)
(* The generated ids of the fact records, as the strings the f-strings     *)
(* build.  A country code is a key of the source JSON: any text.           *)
(***************************************************************************)
IdCodes == {"CN", "A", "A_", "_B", "B"}

\* The characters of a sample code.
CodeChars(code) ==
  CASE code = "CN" -> <<"C", "N">>
    [] code = "A" -> <<"A">>
    [] code = "A_" -> <<"A", "_">>
    [] code = "_B" -> <<"_", "B">>
    [] code = "B" -> <<"B">>
    [] OTHER -> <<code>>

\* The characters of an id whose codes are given as tokens.
RECURSIVE IdString(_)
IdString(id) ==
  IF id = <<>> THEN <<>> ELSE CodeChars(Head(id)) \o IdString(Tail(id))

OriginKeys ==
  [hs_code : {HsA, HsB}, year : {2023}, month : {6, 12},
   origin_country_code : IdCodes, destination_country_code : IdCodes]
MonthlyKeys ==
  [hs_code : {HsA, HsB}, year : {2022, 2023}, month : {6, 12},
   country_code : IdCodes]

\* stat_id of import_country_origin.import_json_file
\* (batch_import_all.import_country_origin_data builds the same string).
OriginIdOf(k) ==
  IdString(OriginStatId(k.hs_code, k.year, k.month, k.origin_country_code,
                        k.destination_country_code))

\* stat_id of import_country_trade_stats.import_json_file
\* (batch_import_all.import_monthly_data builds the same string).
MonthlyIdOf(k) ==
  IdString(MonthlyStatId(k.hs_code, k.year, k.month, k.country_code))

GenerateOriginIds ==
  /\ req = NoReq /\ db.table = "country_origin_trade_stats"
  /\ req' = [endpoint |-> "stat_id", table |-> db.table]
  /\ resp' = [a |-> OriginIdOf(db.a), b |-> OriginIdOf(db.b)]
  /\ UNCHANGED db

GenerateMonthlyIds ==
  /\ req = NoReq /\ db.table = "country_monthly_trade_stats"
  /\ req' = [endpoint |-> "stat_id", table |-> db.table]
  /\ resp' = [a |-> MonthlyIdOf(db.a), b |-> MonthlyIdOf(db.b)]
  /\ UNCHANGED db

InitIds ==
  /\ db \in {[table |-> "country_origin_trade_stats", a |-> a, b |-> b] :
               a \in OriginKeys, b \in OriginKeys}
            \cup {[table |-> "country_monthly_trade_stats", a |-> a, b |-> b] :
                    a \in MonthlyKeys, b \in MonthlyKeys}
  /\ req = NoReq
  /\ resp = NoResp

NextIds == GenerateOriginIds \/ GenerateMonthlyIds

\* The ids of two records of one table.
SpecIds == InitIds /\ [][NextIds]_vars

(***************************************************************************)
(* Claims about the ids.                                                   *)
(***************************************************************************)
\* C23: the generated ids of two fact records are equal exactly when their
\* natural keys are equal.
C23_IdEqualIffNaturalKeyEqual ==
  req.endpoint = "stat_id" => ((resp.a = resp.b) <=> (db.a = db.b))

(***************************************************************************)
(* Claims about the category filter of get_monthly_company_flows.          *)
(***************************************************************************)
\* The request supplies category_id and nothing else.
CategoryOnly ==
  /\ Served /\ req.endpoint = "get_monthly_company_flows"
  /\ TruthySeq(req.params.category_id)
  /\ \A k \in DOMAIN req.params \ {"category_id"} : req.params[k] = None

\* At least one code of the row's list, trimmed, has a 2-digit chapter that
\* the chapter table maps to a requested category.
MentionsCategory(r) ==
  /\ r.hs_codes # None
  /\ \E i \in 1..Len(Split(r.hs_codes[1], ",")) :
       LET code == Trim(Split(r.hs_codes[1], ",")[i]) IN
       /\ Len(code) >= 2
       /\ \E h \in db.hcc :
            /\ h.hs_code = <<code[1], code[2]>>
            /\ h.category_id \in {Some(c) : c \in Range(req.params.category_id[1])}

SameFlow(entry, r) ==
  /\ entry.year_month = r.year_month
  /\ entry.exporter_name = r.exporter_name
  /\ entry.importer_name = r.importer_name

BufferLoaders ==
  {"import_country_origin.import_json_file",
   "batch_import_all.import_country_origin_data"}

\* Files of three and of five accepted records, with records the loops skip
\* or filter in between, and with two records of one natural key.
BufferFiles ==
  OriginFiles \cup
  {OriginFile(Stem3(HsA, 2023, <<"0", "8">>), "SemiConductor",
              <<OriginEntry("CN", "US", StatA),
                OriginEntry("CN", "JP", StatZeroWeight),
                OriginEntry("DE", "US", StatB),
                OriginEntry("N/A", "US", StatA),
                OriginEntry("JP", "US", StatA)>>),
   OriginFile(Stem3(HsB, 2023, <<"0", "8">>), "Solar",
              <<OriginEntry("CN", "US", StatA),
                OriginEntry("CN", "US", StatB),
                OriginEntry("DE", "US", StatA),
                OriginEntry("DE", "JP", StatNA),
                OriginEntry("JP", "US", StatB),
                OriginEntry("JP", "DE", StatA)>>),
   OriginFile(Stem3(HsB, 2023, <<"0", "9">>), "SemiConductor",
              <<OriginEntry("CHINA", "US", StatA),
                OriginEntry("DE", "US", StatA),
                OriginEntry("JP", "US", StatB)>>)}

IsBatchImportAll(rq) == rq.loader = "batch_import_all.import_country_origin_data"

\* Variant: the buffer is flushed only once it holds more than batch_size.
BufferFull_Greater(batch, batch_size) == Len(batch) > batch_size

\* if len(batch) >= batch_size:
BufferFull(batch, batch_size) == Len(batch) >= batch_size

\* _batch_insert / batch_insert_origin_stats on the buffer: the statement in
\* its own transaction.  import_country_origin catches the exception and
\* returns 0; batch_import_all lets it leave the function.
Submit(d, rq) ==
  CHOOSE r \in
    {[db |-> [d EXCEPT !.tables["country_origin_trade_stats"] = tx.rows,
                       !.clock = @ + 1],
      req |-> [rq EXCEPT !.batch = <<>>,
                         !.submitted = Append(@, rq.batch),
                         !.imported = @ + (IF tx.ok THEN Len(rq.batch) ELSE 0),
                         !.pc = IF ~tx.ok /\ IsBatchImportAll(rq) THEN "raised"
                                ELSE @]] :
       tx \in {Statement(d.tables["country_origin_trade_stats"], rq.batch,
                         IF IsBatchImportAll(rq) THEN BatchOriginUpsert
                         ELSE OriginUpsert,
                         d.clock + 1)}} : TRUE

\* The record the loop body builds from the i-th statistics dict.
BufferRecord(rq) ==
  LET parts == Split(rq.file.stem, "_") IN
  OriginStatRecord(parts[1], IntOf(parts[2]), IntOf(parts[3]),
                   IF IsBatchImportAll(rq) \/ rq.file.industry_dir = ""
                   THEN "SemiConductor" ELSE rq.file.industry_dir,
                   rq.file.entries[rq.i])

\* The loader opens a file whose name parses.
BufferStart ==
  /\ req = NoReq
  /\ \E loader \in BufferLoaders, f \in BufferFiles, n \in BatchSizeInputs :
       /\ Len(Split(f.stem, "_")) >= 3
       /\ loader = "batch_import_all.import_country_origin_data" => n = BATCH_SIZE
       /\ loader # "batch_import_all.import_country_origin_data" => n # BATCH_SIZE
       /\ req' = [endpoint |-> "buffered_load", loader |-> loader, file |-> f,
                  batch_size |-> n, pc |-> "loop", i |-> 1, batch |-> <<>>,
                  submitted |-> <<>>, imported |-> 0, filtered |-> 0]
  /\ UNCHANGED <<db, resp>>

\* One iteration of the innermost loop: skip, count as filtered, or append
\* and flush a full buffer.
BufferIterate ==
  /\ req # NoReq /\ req.endpoint = "buffered_load" /\ req.pc = "loop"
  /\ req.i <= Len(req.file.entries)
  /\ LET e == req.file.entries[req.i]
         reaches == IF IsBatchImportAll(req) THEN BatchOriginReaches(e)
                    ELSE OriginReaches(e)
         keeps == IF IsBatchImportAll(req) THEN BatchOriginKeeps(e)
                  ELSE OriginKeeps(e)
     IN IF ~reaches
        THEN req' = [req EXCEPT !.i = @ + 1] /\ UNCHANGED db
        ELSE IF ~keeps
        THEN req' = [req EXCEPT !.i = @ + 1, !.filtered = @ + 1] /\ UNCHANGED db
        ELSE \E rq \in {[req EXCEPT !.i = @ + 1,
                                    !.batch = Append(@, BufferRecord(req))]} :
               IF BufferFull(rq.batch, rq.batch_size)
               THEN \E out \in {Submit(db, rq)} : req' = out.req /\ db' = out.db
               ELSE req' = rq /\ UNCHANGED db
  /\ UNCHANGED resp

\* After the loops: `if batch:` the rest of the buffer is submitted, and the
\* function returns the count.
BufferFinish ==
  /\ req # NoReq /\ req.endpoint = "buffered_load" /\ req.pc = "loop"
  /\ req.i > Len(req.file.entries)
  /\ \E out \in {IF req.batch # <<>> THEN Submit(db, req)
                 ELSE [db |-> db, req |-> req]} :
       /\ db' = out.db
       /\ req' = [out.req EXCEPT !.pc = IF @ = "raised" THEN @ ELSE "done"]
       /\ resp' = [imported |-> out.req.imported, filtered |-> out.req.filtered,
                   raised |-> out.req.pc = "raised"]

NextBuffer ==
  \/ BufferStart
  \/ BufferIterate
  \/ BufferFinish

\* One load of one file, iteration by iteration, into an empty store.
SpecBuffer == InitLoad /\ [][NextBuffer]_vars

(***************************************************************************)
(* Claims about the buffer.                                                *)
(***************************************************************************)
Loading == req # NoReq /\ req.endpoint = "buffered_load"

RECURSIVE Concat(_)
Concat(batches) ==
  IF batches = <<>> THEN <<>> ELSE Head(batches) \o Concat(Tail(batches))

\* The ids of the records of the file that pass the validity filter, in
\* source order, each with its position in the file.
Accepted ==
  LET kept == IF IsBatchImportAll(req) THEN BatchOriginKept(req.file)
              ELSE OriginKept(req.file)
  IN [k \in 1..Len(kept) |-> req.file.entries[kept[k]]]

\* What a submitted record shows of the statistics dict it was built from.
SameRecord(rec, e) ==
  /\ rec.origin_country_code = Some(e.origin)
  /\ rec.destination_country_code = Some(e.dest)
  /\ rec.weight = e.stat.weight
  /\ rec.sum_of_usd = e.stat.sumOfUSD

MonthlyJsonLoaded ==
  Loaded /\ req.loader = "import_country_trade_stats.import_json_file"

\* The transactions of the run in which the fallback ran.
Fallbacks == {k \in 1..Len(resp.trace) : resp.trace[k].kind = "single"}

\* rec raises when it is inserted alone into the table the fallback found.
IndividuallyFails(e, rec) == ~Statement(e.before, <<rec>>, MonthlyUpsert, e.at).ok

\* rec is in the table when _batch_insert returns: a row under its natural
\* key carries its values and the time of the fallback.
Persisted(e, rec) ==
  \E i \in 1..Len(e.after) :
    /\ KeyOf(e.after[i], MonthlyKey) = KeyOf(rec, MonthlyKey)
    /\ e.after[i].updated_at = Some(e.at)

\* return imported, of the except branch of _batch_insert.
FallbackCount(e) == SingleRowTransaction(e.before, e.batch, MonthlyUpsert, e.at).imported

\* C27: when the batch statement of import_country_trade_stats._batch_insert
\* fails and the single-row fallback runs, every record of the batch that
\* does not fail individually is persisted, and the count the function
\* returns is the number of records of the batch that are persisted when it
\* returns.
C27_FallbackPersistsTheRest ==
  MonthlyJsonLoaded =>
    \A k \in Fallbacks :
      LET e == resp.trace[k] IN
      /\ \A j \in 1..Len(e.batch) :
           ~IndividuallyFails(e, e.batch[j]) => Persisted(e, e.batch[j])
      /\ FallbackCount(e) =
           Cardinality({j \in 1..Len(e.batch) : Persisted(e, e.batch[j])})

\* The runs of import_country_origin.import_json_file that return.
OriginJsonReturned ==
  Loaded /\ req.loader = "import_country_origin.import_json_file" /\ ~resp.raised

\* The records of the run's batches: the accepted records.
AcceptedRecords == Concat([k \in 1..Len(resp.trace) |-> resp.trace[k].batch])

\* C28: after import_country_origin.import_json_file returns, every accepted
\* record has a row with its natural key in country_origin_trade_stats, and
\* the imported count it returns is the number of accepted records.
C28_AcceptedRecordsArePersisted ==
  OriginJsonReturned =>
    /\ \A j \in 1..Len(AcceptedRecords) :
         \E i \in 1..Len(db.tables[req.table]) :
           KeyOf(db.tables[req.table][i], OriginKey) = KeyOf(AcceptedRecords[j], OriginKey)
    /\ resp.imported = Len(AcceptedRecords)


(***************************************************************************)
(* Result rows to mappings: db_helpers.rows_to_dicts and the inline        *)
(* mapping of get_monthly_company_flows.                                   *)
(***************************************************************************)
MaxResultRows == 2

\* The columns of the result sets mapped here: result.keys().
ResultColumns == <<"year_month", "first_transaction_date", "transaction_count">>

\* A row holds one value per column of its result set: NULL (None), a
\* number, or a date.  A row is a SQLAlchemy Row (_mapping), a named tuple
\* (_asdict) or a plain tuple.
\* Values carry their Python type: isinstance(v, (date, datetime)).
DateValue(y, m, d) == [type |-> "date", year |-> y, month |-> m, day |-> d]
StrValue(s) == [type |-> "str", chars |-> s]
IntValue(n) == [type |-> "int", n |-> n]
IsDate(v) == v # None /\ v[1].type = "date"
RowRepresentations == {"_mapping", "_asdict", "plain"}
ResultRow(rep, values) == [rep |-> rep, values |-> values]
ResultRows ==
  {ResultRow(rep, <<ym, dt, n>>) :
     rep \in RowRepresentations,
     ym \in {Some(StrValue(<<"2", "0", "2", "3", "-", "0", "6">>))},
     dt \in {None, Some(DateValue(2023, 6, 1))},
     n \in {None, Some(IntValue(3))}}
ResultSets ==
  {[keys |-> ResultColumns, has_keys |-> TRUE, rows |-> rows] :
     rows \in SeqsUpTo(ResultRows, MaxResultRows)}

\* Position of column c in the result set (the last one of that name).
ColumnIndex(cols, c) == CHOOSE i \in 1..Len(cols) :
                          cols[i] = c /\ \A j \in (i + 1)..Len(cols) : cols[j] # c

\* row._mapping and row._asdict(): the row's own mapping, column -> value.
RowMapping(row, cols) ==
  [c \in Range(cols) |-> row.values[ColumnIndex(cols, c)]]

\* Variant: the fallback keeps only the columns whose value is truthy.
IndexedMapping_Truthy(row, cols) ==
  [c \in {d \in Range(cols) : row.values[ColumnIndex(cols, d)] # None} |->
     row.values[ColumnIndex(cols, c)]]

\* {col: row[i] for i, col in enumerate(cols)}
IndexedMapping(row, cols) ==
  [c \in Range(cols) |-> row.values[ColumnIndex(cols, c)]]

\* {f'col_{i}': val for i, val in enumerate(row)}
PositionKeys == <<"col_0", "col_1", "col_2">>
PositionMapping(row) ==
  [c \in {PositionKeys[i] : i \in 1..Len(row.values)} |->
     row.values[CHOOSE i \in 1..Len(row.values) : PositionKeys[i] = c]]

\* cols = result.keys() if hasattr(result, "keys") else []
KeysOf(result) == IF result.has_keys THEN result.keys ELSE <<>>

\* db_helpers.rows_to_dicts, one row.
row_to_dict(result, row) ==
  IF row.rep = "_mapping" THEN RowMapping(row, result.keys)
  ELSE IF row.rep = "_asdict" THEN RowMapping(row, result.keys)
  ELSE IndexedMapping(row, KeysOf(result))

rows_to_dicts(result, rows) ==
  [i \in 1..Len(rows) |-> row_to_dict(result, rows[i])]

\* value.strftime('%Y-%m-%d')
Strftime(d) ==
  StrValue(StrOf(d.year) \o <<"-">> \o Pad2(d.month) \o <<"-">> \o Pad2(d.day))

\* if 'first_transaction_date' in flow_dict and .. is not None:
\*     if isinstance(.., (date, datetime)): flow_dict[..] = ...strftime(..)
DateFields == {"first_transaction_date", "last_transaction_date"}
DatesToStrings(flow_dict) ==
  [c \in DOMAIN flow_dict |->
     IF c \in DateFields /\ IsDate(flow_dict[c])
     THEN Some(Strftime(flow_dict[c][1]))
     ELSE flow_dict[c]]

\* get_monthly_company_flows: flow_dict of one row.
flow_dict(result, row) ==
  DatesToStrings(
    IF row.rep = "_mapping" THEN RowMapping(row, result.keys)
    ELSE IF row.rep = "_asdict" THEN RowMapping(row, result.keys)
    ELSE IF KeysOf(result) # <<>> THEN IndexedMapping(row, KeysOf(result))
    ELSE PositionMapping(row))

flows(result, rows) == [i \in 1..Len(rows) |-> flow_dict(result, rows[i])]

\* result = db.execute(..); rows = result.fetchall(): the result set is there
\* before a mapper runs.
Fetched == req.endpoint = "fetchall"

RowsToDicts ==
  /\ Fetched
  /\ req' = [req EXCEPT !.endpoint = "rows_to_dicts"]
  /\ resp' = [status |-> 200, kind |-> "rows",
              body |-> rows_to_dicts(req.result, req.result.rows)]
  /\ UNCHANGED db

FlowsToDicts ==
  /\ Fetched
  /\ req' = [req EXCEPT !.endpoint = "get_monthly_company_flows"]
  /\ resp' = [status |-> 200, kind |-> "rows",
              body |-> flows(req.result, req.result.rows)]
  /\ UNCHANGED db

InitRows ==
  /\ db = <<>>
  /\ req \in {[endpoint |-> "fetchall", result |-> rs] : rs \in ResultSets}
  /\ resp = NoResp

NextRows == RowsToDicts \/ FlowsToDicts

\* The two mappers, each applied to a fetched result set of up to
\* MaxResultRows rows.
SpecRows == InitRows /\ [][NextRows]_vars

Mapped == req.endpoint \in {"rows_to_dicts", "get_monthly_company_flows"}

\* The value the mapping of row holds for the column at position k.
MappedValue(mapping, result, k) == mapping[result.keys[k]]

OriginInputsTx == {"", "CN"}
CategoryIdInputs == {"", "equipment"}

TxStatsParams ==
  [start_date : Opt(DateInputs), end_date : Opt(DateInputs),
   origin_country : Opt(OriginInputsTx),
   destination_country : Opt(DestinationInputs),
   category_id : Opt(CategoryIdInputs), company_id : Opt(CompanyIdInputs),
   min_value : Opt(ValueInputs), max_value : Opt(ValueInputs),
   status : Opt(StatusInputs)]

TxStatsDefaults ==
  [start_date |-> None, end_date |-> None, origin_country |-> None,
   destination_country |-> None, category_id |-> None, company_id |-> None,
   min_value |-> None, max_value |-> None, status |-> None]

\* query = db.query(Transaction) and the filters added to it.
TxStatsWhere(p, t) ==
  /\ TruthySeq(p.start_date) => DateLeq(IsoDate(p.start_date[1]), t.transaction_date)
  /\ TruthySeq(p.end_date) => DateLeq(t.transaction_date, IsoDate(p.end_date[1]))
  /\ TruthyStr(p.origin_country) => t.origin_country_code = p.origin_country[1]
  /\ TruthyStr(p.destination_country) =>
       t.destination_country_code = p.destination_country[1]
  /\ TruthyStr(p.category_id) => t.category_id = p.category_id[1]
  /\ TruthyStr(p.company_id) =>
       \/ t.exporter_company_id = Some(p.company_id[1])
       \/ t.importer_company_id = Some(p.company_id[1])
  /\ p.min_value # None => t.total_value >= p.min_value[1]
  /\ p.max_value # None => t.total_value <= p.max_value[1]
  /\ TruthySeq(p.status) =>
       \E i \in 1..Len(StatusList(p.status[1])) :
         StatusList(p.status[1])[i] = <<t.status>>

\* func.sum(Transaction.total_value) over a set of rows, NULL and 0 both
\* read as 0.0: float(x) if x else 0.0
TotalValue(S) == SumOver(S, [t \in S |-> t.total_value])

\* db.query(Category.id, Category.display_name, count, sum)
\*   .join(Transaction, Category.id == Transaction.category_id).group_by(..)
\* The query starts from db.query, not from the filtered query.
CategoryStats(d) ==
  {[category_id |-> c.id, category_name |-> c.display_name,
    count |-> Cardinality({t \in d.tx : t.category_id = c.id}),
    total_value |-> TotalValue({t \in d.tx : t.category_id = c.id})] :
     c \in {k \in d.categories : \E t \in d.tx : t.category_id = k.id}}

\* query.with_entities(origin, destination, count, sum).group_by(origin,
\* destination).order_by(sum desc).limit(10): the stores here hold fewer
\* than 10 routes, so the limit cuts nothing and the routes are kept as a set.
RouteStats(hit) ==
  {[origin_country |-> r[1], destination_country |-> r[2],
    transaction_count |->
      Cardinality({t \in hit : t.origin_country_code = r[1]
                                 /\ t.destination_country_code = r[2]}),
    total_value |->
      TotalValue({t \in hit : t.origin_country_code = r[1]
                                /\ t.destination_country_code = r[2]})] :
     r \in {<<t.origin_country_code, t.destination_country_code>> : t \in hit}}

get_transaction_stats(d, p) ==
  IF TransactionDateRaises(p) THEN InternalError(ValueError)
  ELSE IF ExecError(d, "transactions", FALSE) # None
       THEN InternalError(ExecError(d, "transactions", FALSE)[1])
  ELSE LET hit == {t \in d.tx : TxStatsWhere(p, t)} IN
       [status |-> 200, kind |-> "stats",
        body |-> <<[total_transactions |-> Cardinality(hit),
                    total_value |-> TotalValue(hit),
                    active_countries |->
                      Cardinality({t.origin_country_code : t \in hit}
                                    \cup {t.destination_country_code : t \in hit}),
                    active_companies |->
                      Cardinality({t.exporter_company_id[1] :
                                     t \in {u \in hit : u.exporter_company_id # None}}
                                    \cup
                                  {t.importer_company_id[1] :
                                     t \in {u \in hit : u.importer_company_id # None}}),
                    category_breakdown |-> CategoryStats(d),
                    top_routes |-> RouteStats(hit)]>>]

TxStatsRequests ==
  {p \in TxStatsParams : Supplied(p, TxStatsDefaults) <= MaxFilters}

GetTransactionStats ==
  /\ req = NoReq
  /\ \E p \in TxStatsRequests :
       \E r \in {get_transaction_stats(db, p)} :
         /\ req' = [endpoint |-> "get_transaction_stats", params |-> p]
         /\ resp' = r
  /\ UNCHANGED db

\* One statistics request against stores of up to MaxPageRows transactions.
SpecTxStats == InitPages /\ [][GetTransactionStats]_vars

\* C29: the parts of the response of get_transaction_stats are computed over
\* the same filtered set: the counts of category_breakdown add up to
\* total_transactions and its total_value entries add up to total_value.
C29_BreakdownAddsUpToTotals ==
  Served /\ req.endpoint = "get_transaction_stats" /\ resp.status = 200 =>
    LET body == resp.body[1]
        cb == body.category_breakdown
    IN /\ SumOver(cb, [c \in cb |-> c.count]) = body.total_transactions
       /\ SumOver(cb, [c \in cb |-> c.total_value]) = body.total_value


(***************************************************************************)
(* scripts/import_data.py and scripts/import_railway.py: import_data.      *)
(***************************************************************************)
\* company_name.lower().replace(' ', '_').replace('.', '').replace(',', '')
\*   .replace('-', '_'), one character at a time.
NameChar(c) ==
  CASE c \in {" ", "-"} -> <<"_">>
    [] c \in {".", ","} -> <<>>
    [] c = "A" -> <<"a">>
    [] c = "T" -> <<"t">>
    [] c = "E" -> <<"e">>
    [] c = "I" -> <<"i">>
    [] OTHER -> <<c>>

RECURSIVE NamePart(_)
NamePart(name) ==
  IF name = <<>> THEN <<>> ELSE NameChar(Head(name)) \o NamePart(Tail(name))

\* country_code.lower()
LowerCode(cc) ==
  CASE cc = "NL" -> "nl" [] cc = "TW" -> "tw" [] cc = "US" -> "us"
    [] cc = "KR" -> "kr" [] cc = "CHINA" -> "china" [] OTHER -> cc

\* f"{country_code.lower()}_{name_part[:30]}"
generate_company_id(company_name, country_code) ==
  <<LowerCode(country_code), "_">> \o Limit(NamePart(company_name), 30)

generate_city_from_country(country_code) ==
  CASE country_code = "TW" -> "Taipei"
    [] country_code = "KR" -> "Seoul"
    [] country_code = "US" -> "New York"
    [] country_code = "NL" -> "Amsterdam"
    [] OTHER -> "Unknown"

\* The rows of the CSV files.  exporter_city / importer_city: None when the
\* file has no such column or the cell is empty.
ImportRow(id, cat, ex, exc, exCity, im, imc, imCity, date) ==
  [id |-> id, category_name |-> cat,
   exporter_company |-> ex, exporter_country_code |-> exc, exporter_city |-> exCity,
   importer_company |-> im, importer_country_code |-> imc, importer_city |-> imCity,
   transaction_date |-> date]

NameAs == <<"A", "s">>
NameTE == <<"T", " ", "E">>
NameT_E == <<"T", "-", "E">>
NameIn == <<"I", "n">>

RowT1 == ImportRow("t1", "Equipment", NameAs, "NL", None, NameTE, "TW",
                   Some("Hsinchu"), Date230601)
RowT2 == ImportRow("t2", "Equipment", NameAs, "NL", None, NameIn, "US", None,
                   Date230601)
RowT1Again == ImportRow("t1", "Equipment", NameIn, "US", Some("Austin"), NameT_E,
                        "TW", None, Date230601)
RowBadDate == ImportRow("t4", "Equipment", NameIn, "KR", None, NameAs, "KR", None,
                        DateNoSep)
RowNoCategory == ImportRow("t5", "Unknown", NameAs, "NL", None, NameIn, "US", None,
                           Date230601)
RowNoExporter == ImportRow("t6", "Equipment", <<>>, "KR", None, NameTE, "TW", None,
                           Date230601)
RowLongCode == ImportRow("t7", "Equipment", NameAs, "NL", None, NameIn, "CHINA",
                         None, Date230601)
RowSameCountry == ImportRow("t8", "Equipment", NameIn, "KR", None, NameAs, "KR",
                            Some("Suwon"), Date230601)

ImportFiles ==
  {<<RowT1>>, <<RowT1, RowT2>>, <<RowT2, RowT1Again>>, <<RowT1, RowT1Again>>,
   <<RowSameCountry, RowBadDate>>, <<RowNoCategory, RowNoExporter>>,
   <<RowT2, RowLongCode>>, <<RowSameCountry>>}

ImportScripts == {"import_data", "import_railway"}

\* The categories the schema seeds; import_railway rewrites display_name.
ImportCategories ==
  {[id |-> "equipment", name |-> "Equipment", display_name |-> "Equipment"],
   [id |-> "raw_material", name |-> "Raw Material", display_name |-> "Raw Material"]}

\* update_categories_chinese: UPDATE categories SET display_name = .. WHERE
\* id = .., committed on its own connection.
ChineseName(id) ==
  CASE id = "equipment" -> "SheBei" [] id = "raw_material" -> "YuanCaiLiao"
    [] OTHER -> id
update_categories_chinese(cats) ==
  {[c EXCEPT !.display_name = ChineseName(c.id)] : c \in cats}

\* category_id_map.get(category_name)
category_id_map(category_name) ==
  CASE category_name \in {"Equipment", "SheBei"} -> Some("equipment")
    [] category_name \in {"Raw Material", "YuanCaiLiao"} -> Some("raw_material")
    [] OTHER -> None

\* The category lookup of each script: import_data matches display_name;
\* import_railway tries display_name, then name, then the id of the map.
CategoryOf(script, cats, category_name) ==
  LET byDisplay == {c \in cats : c.display_name = category_name}
      byName == {c \in cats : c.name = category_name}
      byId == {c \in cats : Some(c.id) = category_id_map(category_name)}
  IN IF byDisplay # {} THEN byDisplay
     ELSE IF script = "import_data" THEN {}
     ELSE IF byName # {} THEN byName
     ELSE byId

EmptyTables == [locations |-> {}, companies |-> {}, tx |-> {}]
TablesOf(d) == [locations |-> d.locations, companies |-> d.companies, tx |-> d.tx]

\* INSERT of a row: it raises on a primary key that is taken and on a
\* country code longer than VARCHAR(3).  (An ORM insert is sent at the next
\* flush -- the next query, or the commit --, inside the same try block.)
InsertRaises(table, row, codes) ==
  \/ \E r \in table : r.id = row.id
  \/ \E c \in codes : StrLen(c) > 3

\* Step 2 and 3: the company of one side of the row, and the city location
\* created along with a new company.  s = [ok, view, companies_cache,
\* cities_cache].
ProcessCompany(s, company_name, country_code, city_cell, type) ==
  LET id == generate_company_id(company_name, country_code)
      city == IF city_cell # None /\ city_cell[1] # "" THEN city_cell[1]
              ELSE generate_city_from_country(country_code)
      company == [id |-> id, name |-> company_name, country_code |-> country_code,
                  city |-> city, type |-> type]
      city_key == <<country_code, city>>
      city_location == [id |-> <<country_code, "_", city>>, type |-> "city",
                        country_code |-> country_code, city |-> Some(city)]
      found == \E l \in s.view.locations :
                 l.country_code = country_code /\ l.city = Some(city) /\ l.type = "city"
  IN IF ~s.ok \/ company_name = <<>> THEN s
     ELSE IF id \in s.companies_cache THEN s
     ELSE IF \E c \in s.view.companies : c.id = id
          THEN [s EXCEPT !.companies_cache = @ \cup {id}]
     ELSE IF InsertRaises(s.view.companies, company, {country_code})
          THEN [s EXCEPT !.ok = FALSE]
     ELSE IF city_key \in s.cities_cache THEN
       [s EXCEPT !.view.companies = @ \cup {company},
                 !.companies_cache = @ \cup {id}]
     ELSE IF found THEN
       [s EXCEPT !.view.companies = @ \cup {company},
                 !.companies_cache = @ \cup {id},
                 !.cities_cache = @ \cup {city_key}]
     ELSE IF InsertRaises(s.view.locations, city_location, {country_code})
          THEN [s EXCEPT !.ok = FALSE]
     ELSE [s EXCEPT !.view.companies = @ \cup {company},
                    !.view.locations = @ \cup {city_location},
                    !.companies_cache = @ \cup {id},
                    !.cities_cache = @ \cup {city_key}]

\* Variant: only the exporter's country gets a country location.
CountryPairs_ExporterOnly(row) == <<row.exporter_country_code>>

\* for country_code, country_name in [(exporter ..), (importer ..)]
CountryPairs(row) == <<row.exporter_country_code, row.importer_country_code>>

\* Step 4, one country: the country location is created unless one exists.
ProcessCountry(s, country_code) ==
  LET country_location == [id |-> <<country_code>>, type |-> "country",
                           country_code |-> country_code, city |-> None]
  IN IF ~s.ok THEN s
     ELSE IF \E l \in s.view.locations :
               l.country_code = country_code /\ l.type = "country"
          THEN s
     ELSE IF InsertRaises(s.view.locations, country_location, {country_code})
          THEN [s EXCEPT !.ok = FALSE]
     ELSE [s EXCEPT !.view.locations = @ \cup {country_location}]

RECURSIVE ProcessCountries(_, _)
ProcessCountries(s, codes) ==
  IF codes = <<>> THEN s
  ELSE CHOOSE r \in {ProcessCountries(x, Tail(codes)) :
                       x \in {ProcessCountry(s, Head(codes))}} : TRUE

\* Step 5: the transaction of the row.  import_railway skips a row whose id
\* is stored; import_data adds it, and the insert raises.
ProcessTransaction(s, script, row, category) ==
  LET exporter_company_id ==
        IF row.exporter_company = <<>> THEN None
        ELSE Some(generate_company_id(row.exporter_company, row.exporter_country_code))
      importer_company_id ==
        IF row.importer_company = <<>> THEN None
        ELSE Some(generate_company_id(row.importer_company, row.importer_country_code))
      transaction ==
        [id |-> row.id, exporter_company_id |-> exporter_company_id,
         importer_company_id |-> importer_company_id,
         origin_country_code |-> row.exporter_country_code,
         destination_country_code |-> row.importer_country_code,
         category_id |-> category.id,
         transaction_date |-> IF IsoParses(row.transaction_date)
                              THEN IsoDate(row.transaction_date) ELSE <<>>]
  IN IF ~s.ok THEN s
     ELSE IF script = "import_railway" /\ \E t \in s.view.tx : t.id = row.id THEN s
     ELSE IF ~IsoParses(row.transaction_date) THEN [s EXCEPT !.ok = FALSE]
     ELSE IF InsertRaises(s.view.tx, transaction,
                          {row.exporter_country_code, row.importer_country_code})
          THEN [s EXCEPT !.ok = FALSE]
     ELSE [s EXCEPT !.view.tx = @ \cup {transaction}]

\* One iteration of `for row in reader`.
ProcessRow(s, script, cats, row) ==
  LET category == CategoryOf(script, cats, row.category_name) IN
  IF category = {} THEN s
  ELSE CHOOSE r \in
    {ProcessTransaction(s4, script, row, CHOOSE c \in category : TRUE) :
       s4 \in {ProcessCountries(s3, CountryPairs(row)) :
         s3 \in {ProcessCompany(s2, row.importer_company, row.importer_country_code,
                                row.importer_city, "importer") :
           s2 \in {ProcessCompany(s, row.exporter_company, row.exporter_country_code,
                                  row.exporter_city, "exporter")}}}} : TRUE

\* session.rollback(): nothing the session sent is kept.
Rollback_KeepsFlushed(d, view) == [d EXCEPT !.companies = view.companies]
Rollback(d, view) == d

\* session.commit()
Commit(d, view) ==
  [d EXCEPT !.locations = view.locations, !.companies = view.companies,
            !.tx = view.tx]

Importing == req.endpoint = "import_data"

\* session = Session(); rows read; caches empty.  import_railway first
\* rewrites the category names.
ImportBegin ==
  /\ ~(Importing /\ req.pc \in {"loop", "raising"})
  /\ db.runs < MaxRuns
  /\ \E script \in ImportScripts, rows \in ImportFiles :
       /\ db' = [db EXCEPT !.runs = @ + 1,
                           !.categories = IF script = "import_railway"
                                          THEN update_categories_chinese(@) ELSE @]
       /\ req' = [endpoint |-> "import_data", script |-> script, rows |-> rows,
                  i |-> 1, pc |-> "loop", before |-> TablesOf(db),
                  processed |-> {},
                  s |-> [ok |-> TRUE, view |-> TablesOf(db),
                         companies_cache |-> {}, cities_cache |-> {}]]
       /\ resp' = NoResp

ImportNextRow ==
  /\ Importing /\ req.pc = "loop" /\ req.i <= Len(req.rows)
  /\ \E out \in {ProcessRow(req.s, req.script, db.categories, req.rows[req.i])} :
       req' = [req EXCEPT !.s = out,
                          !.i = IF out.ok THEN @ + 1 ELSE @,
                          !.pc = IF out.ok THEN "loop" ELSE "raising",
                          !.processed =
                            IF CategoryOf(req.script, db.categories,
                                          req.rows[req.i].category_name) # {}
                            THEN @ \cup {req.i} ELSE @]
  /\ UNCHANGED <<db, resp>>

ImportCommit ==
  /\ Importing /\ req.pc = "loop" /\ req.i > Len(req.rows)
  /\ db' = Commit(db, req.s.view)
  /\ req' = [req EXCEPT !.pc = "committed"]
  /\ resp' = [raised |-> FALSE]

\* except Exception: session.rollback(); raise
ImportRollback ==
  /\ Importing /\ req.pc = "raising"
  /\ db' = Rollback(db, req.s.view)
  /\ req' = [req EXCEPT !.pc = "raised"]
  /\ resp' = [raised |-> TRUE]

InitImport ==
  /\ db = [locations |-> {}, companies |-> {}, tx |-> {},
           categories |-> ImportCategories, runs |-> 0]
  /\ req = NoReq
  /\ resp = NoResp

NextImport == ImportBegin \/ ImportNextRow \/ ImportCommit \/ ImportRollback

\* Runs of the two import scripts, one after the other, row by row.
SpecImport == InitImport /\ [][NextImport]_vars

(***************************************************************************)
(* Claims about the transaction import.                                    *)
(***************************************************************************)
CountryLocationsOf(cc) == {l \in db.locations : l.type = "country" /\ l.country_code = cc}
CityLocationsOf(cc, city) ==
  {l \in db.locations : l.type = "city" /\ l.country_code = cc /\ l.city = city}

\* C24: in the store the import runs leave, no country code has more than
\* one country-type location and no (country_code, city) more than one
\* city-type location; after a run that committed, every country code of a
\* row the run processed has exactly one country-type location.
C24_OneLocationPerCountryAndCity ==
  /\ \A l \in db.locations :
       /\ l.type = "country" => Cardinality(CountryLocationsOf(l.country_code)) = 1
       /\ l.type = "city" => Cardinality(CityLocationsOf(l.country_code, l.city)) = 1
  /\ Importing /\ req.pc = "committed" =>
       \A i \in req.processed :
         /\ Cardinality(CountryLocationsOf(req.rows[i].exporter_country_code)) = 1
         /\ Cardinality(CountryLocationsOf(req.rows[i].importer_country_code)) = 1

\* A second run commits a row whose two sides are in one country, into a
\* store that has country and city locations of an earlier run.
C24_Witness ==
  /\ Importing /\ req.pc = "committed" /\ db.runs = 2
  /\ req.before.locations # {}
  /\ \E i \in req.processed :
       /\ req.rows[i].exporter_country_code = req.rows[i].importer_country_code
       /\ CountryLocationsOf(req.rows[i].exporter_country_code) \cap req.before.locations = {}
  /\ \E l \in db.locations \ req.before.locations : l.type = "city"

\* C30: import_data.import_data is all-or-nothing: until its commit the
\* store holds what it held before the run, and after a run in which a row
\* raised, the store holds no company, location or transaction of that run.
C30_ImportIsAllOrNothing ==
  Importing /\ req.script = "import_data" /\ req.pc \in {"loop", "raising", "raised"} =>
    TablesOf(db) = req.before

\* A second run raised after it had created a company and a location.
C30_Witness ==
  /\ Importing /\ req.script = "import_data" /\ req.pc = "raised"
  /\ req.before.tx # {}
  /\ req.s.view.companies # req.before.companies
  /\ req.s.view.locations # req.before.locations

====
